---- MODULE Spec2Model ----
(***************************************************************************)
(* Flange joint sizing engine (src/App.tsx) and its design-space search.   *)
(*                                                                         *)
(* Numbers.  The program computes in IEEE doubles; the model computes in   *)
(* fixed point, each quantity in the unit named where it is introduced:    *)
(*   lengths typed by the user or displayed       1/10 mm   ("dmm")         *)
(*   inch columns of the bolt table              1/16 inch                 *)
(*   gasket widths b0, b and the diameter G      1/1000 mm ("um")          *)
(*   pressure                                    kPa (1/1000 MPa)          *)
(*   pressure typed by the user                  1/100 of the chosen unit  *)
(*   temperature                                 1/100 degree              *)
(*   allowable stress                            1/10 MPa  ("dMPa")        *)
(*   gasket factor m                             1/100                     *)
(*   gasket seating stress y                     psi                       *)
(*   loads                                       N                         *)
(* Divisions that the program leaves to the double (x / 0 = Infinity or    *)
(* NaN) are carried as extended numbers, see Fin / PosInf / NegInf / NaN.  *)
(* PI is the rational PI_N / PI_D.                                         *)
(***************************************************************************)
EXTENDS Integers, Sequences, FiniteSets, TLC

(***************************************************************************)
(* State of the application (the hooks of App)                             *)
(***************************************************************************)
\* editingRecordId when no record is being edited.
Null == "null"

VARIABLES
  inputs,             \* useState<FlangeInputs>
  isFixedSizeSearch,  \* useState(false)
  search,             \* << >>, or the frame of the running performSearch
  alert,              \* << >>, or the alert window.alert is showing
  call,               \* << >>, or one call of a function of the engine studied
                      \* on its own: its arguments and, once returned, its value
  savedRecords,       \* useState<SavedRecord[]>([])
  editingRecordId,    \* useState<string | null>(null)
  now                 \* Date.now(), in ms

(***************************************************************************)
(* Arithmetic helpers                                                      *)
(***************************************************************************)
Max2(a, b) == IF a >= b THEN a ELSE b
Min2(a, b) == IF a <= b THEN a ELSE b

\* Math.ceil of the rational n / d, d > 0.
CeilDiv(n, d) == -((-n) \div d)

\* Math.sqrt, rounded down to the unit of its argument.
RECURSIVE SqrtBits(_, _, _)
SqrtBits(x, r, bit) ==
  IF bit = 0 THEN r
  ELSE IF (r + bit) * (r + bit) <= x THEN SqrtBits(x, r + bit, bit \div 2)
       ELSE SqrtBits(x, r, bit \div 2)
Sqrt(x) == IF x <= 0 THEN 0 ELSE SqrtBits(x, 0, 16384)

PI_N == 355
PI_D == 113

\* Extended numbers: the values a double division can produce.
Fin(v) == [k |-> "fin", v |-> v]
PosInf == [k |-> "inf", v |-> 0]
NegInf == [k |-> "ninf", v |-> 0]
NaN == [k |-> "nan", v |-> 0]

\* floor(a * 10^k / c) for c > 0, digit by digit so that no product overflows.
RECURSIVE ScaleDigits(_, _, _, _)
ScaleDigits(q, r, k, c) ==
  IF k = 0 THEN q
  ELSE ScaleDigits(q * 10 + (r * 10) \div c, (r * 10) % c, k - 1, c)
ScaleDiv(a, k, c) == ScaleDigits(a \div c, a % c, k, c)

\* n / d as the double computes it, the finite quotient in units of 10^-k,
\* rounded down.
XDiv(n, d, k) ==
  IF d > 0 THEN Fin(ScaleDiv(n, k, d))
  ELSE IF d < 0 THEN Fin(ScaleDiv(-n, k, -d))
  ELSE IF n > 0 THEN PosInf
  ELSE IF n < 0 THEN NegInf
  ELSE NaN

\* x >= 0 for an extended number (false for NaN, as every comparison is).
XGeZero(x) == x.k = "inf" \/ (x.k = "fin" /\ x.v >= 0)

\* Math.max over extended numbers (NaN if either is NaN).
XMax(x, y) ==
  IF x.k = "nan" \/ y.k = "nan" THEN NaN
  ELSE IF x.k = "inf" \/ y.k = "inf" THEN PosInf
  ELSE IF x.k = "ninf" THEN y
  ELSE IF y.k = "ninf" THEN x
  ELSE Fin(Max2(x.v, y.v))

(***************************************************************************)
(* Reference tables (src/constants.ts is not part of the sources at hand;  *)
(* the tables are small stand-ins with the columns the engine reads).      *)
(***************************************************************************)
\* size, B_min, R, E in 1/16 inch; holeSize in dmm; tensileArea in mm^2.
TEMA_BOLT_DATA == <<
  [size |-> 10, B_min |-> 24, R |-> 15, E |-> 12, holeSize |-> 191, tensileArea |-> 130],
  [size |-> 12, B_min |-> 28, R |-> 18, E |-> 13, holeSize |-> 222, tensileArea |-> 195],
  [size |-> 14, B_min |-> 33, R |-> 20, E |-> 15, holeSize |-> 254, tensileArea |-> 270] >>

\* size, B_ten in 1/16 inch (no row for the smallest sizes).
HYDRAULIC_TENSIONING_DATA == <<
  [size |-> 12, B_ten |-> 32],
  [size |-> 14, B_ten |-> 32] >>

\* bolt size (1/16 inch) -> maximum pitch in dmm; sizes without a row are absent.
WHC_MAX_PITCH_TABLE == <<
  [size |-> 12, pitch |-> 750] >>

\* shell inside diameter range [min, max] in dmm -> minimum ring widths in dmm.
GASKET_RING_TABLE == <<
  [min |-> 0,    max |-> 5000,  irMin |-> 60,  orMin |-> 60],
  [min |-> 5001, max |-> 12000, irMin |-> 100, orMin |-> 100] >>

\* Temperature steps in 1/100 degree Celsius, ascending.
BOLT_TEMP_STEPS == << 4000, 10000, 20000, 40000 >>

\* A missing (null) entry of a stress curve.
NullStress == -1

\* id, minimum yield (MPa), stress curve in dMPa over BOLT_TEMP_STEPS.
ASME_BOLT_MATERIALS == <<
  [id |-> "SA-307 B",   minYield |-> 0,   stresses |-> << 480, 480, 480, NullStress >>],
  [id |-> "SA-193 B7",  minYield |-> 725, stresses |-> << 1720, 1720, 1720, NullStress >>] >>

ASME_SHELL_MATERIALS == <<
  [id |-> "SA-516 70", stresses |-> << 1380, 1380, 1380, 1010 >>] >>

\* id, m in 1/100, y in psi.
GASKET_TYPES == <<
  [id |-> "Self-energizing", m |-> 0,   y |-> 0],
  [id |-> "Spiral-wound",    m |-> 300, y |-> 10000],
  [id |-> "Grooved metal",   m |-> 375, y |-> 7600] >>

\* Array.prototype.find: the first of the rows at the indices `hits`, the rows
\* matching the callback, or Undefined.
Undefined == [undefined |-> TRUE]
Find(table, hits) ==
  IF hits = {} THEN Undefined
  ELSE table[CHOOSE i \in hits : \A j \in hits : i <= j]

\* The facing sketches offered by the form; String.startsWith is decided on
\* the text before the colon.
FacingSketches == {"1a: Flat Face / Groove", "1b: Flat Face", "1c: Tongue & Groove",
                   "1d: Flat Face w/ Nubbin", "2: Ring Joint"}
SketchCode(sketch) ==
  CASE sketch = "1a: Flat Face / Groove"  -> "1a"
    [] sketch = "1b: Flat Face"           -> "1b"
    [] sketch = "1c: Tongue & Groove"     -> "1c"
    [] sketch = "1d: Flat Face w/ Nubbin" -> "1d"
    [] sketch = "2: Ring Joint"           -> "2"
    [] OTHER                              -> ""

(***************************************************************************)
(* Unit Normalizer                                                         *)
(***************************************************************************)
\* p in 1/100 of `unit`; the result in kPa.
toMpa(p, unit) ==
  CASE unit = "Bar"    -> p
    [] unit = "PSI"    -> (p * 6894) \div 100000 + (p * 76) \div 10000000
    [] unit = "kg/cm2" -> (p * 9806) \div 10000 + (p * 65) \div 1000000
    [] OTHER           -> p * 10

\* t in 1/100 degree of `unit`; the result in 1/100 degree Celsius.
toCelsius(t, unit) ==
  CASE unit = "F" -> ((t - 3200) * 5) \div 9
    [] unit = "K" -> t - 27315
    [] OTHER      -> t

(***************************************************************************)
(* Stress Interpolator                                                     *)
(***************************************************************************)
\* s || 0 for an entry of a stress curve.
CleanStress(s) == IF s = NullStress \/ s = 0 THEN 0 ELSE s

RECURSIVE InterpolateFrom(_, _, _)
InterpolateFrom(temp, cleanCurve, i) ==
  IF i > Len(BOLT_TEMP_STEPS) - 1 THEN cleanCurve[1]
  ELSE LET t1 == BOLT_TEMP_STEPS[i]
           t2 == BOLT_TEMP_STEPS[i + 1]
       IN IF temp >= t1 /\ temp <= t2
          THEN LET s1 == cleanCurve[i]
                   s2 == IF cleanCurve[i + 1] # 0 THEN cleanCurve[i + 1] ELSE s1
               IN s1 + ((s2 - s1) * (temp - t1)) \div (t2 - t1)
          ELSE InterpolateFrom(temp, cleanCurve, i + 1)

\* temp in 1/100 degree Celsius; the result in dMPa.
interpolateStress(temp, stressCurve) ==
  LET cleanCurve == [i \in 1..Len(stressCurve) |-> CleanStress(stressCurve[i])]
  IN IF temp <= BOLT_TEMP_STEPS[1] THEN cleanCurve[1]
     ELSE IF temp >= BOLT_TEMP_STEPS[Len(BOLT_TEMP_STEPS)]
          THEN cleanCurve[Len(cleanCurve)]
          ELSE InterpolateFrom(temp, cleanCurve, 1)

(***************************************************************************)
(* Shell thickness g0, and the Design Input after construction             *)
(***************************************************************************)
\* The result in dmm (a whole number of mm).
calculateAutoG0(currentInputs) ==
  LET found == Find(ASME_SHELL_MATERIALS,
                   {i \in DOMAIN ASME_SHELL_MATERIALS :
                      ASME_SHELL_MATERIALS[i].id = currentInputs.shellMaterial})
      shellMat == IF found # Undefined THEN found ELSE ASME_SHELL_MATERIALS[1]
      shellStress == interpolateStress(
                       toCelsius(currentInputs.designTemp, currentInputs.tempUnit),
                       shellMat.stresses)
      pMpa == toMpa(currentInputs.designPressure, currentInputs.pressureUnit)
      id == currentInputs.insideDia
      corr == currentInputs.corrosionAllowance
      \* denom in 1/10000 MPa; jointEfficiency in 1/100
      denom == 10 * shellStress * currentInputs.jointEfficiency - 6 * pMpa
  IN IF denom > 0
     THEN 10 * CeilDiv(10 * pMpa * (id + 2 * corr) + 2 * denom * corr, 20 * denom)
     ELSE 10 * CeilDiv(pMpa * (id + 2 * corr) + 2000 * corr, 20000)

\* Math.ceil(g0 * 1.3 / 3 + g0), g0 and the result in dmm.
AutoG1(g0) == 10 * CeilDiv(43 * g0, 300)

initialG0 ==
  calculateAutoG0([designTemp |-> 10000, tempUnit |-> "C", designPressure |-> 100,
                   pressureUnit |-> "MPa", insideDia |-> 3000, corrosionAllowance |-> 0,
                   jointEfficiency |-> 100, shellMaterial |-> ASME_SHELL_MATERIALS[1].id])

initialInputs ==
  [ itemNo |-> "E-101", partName |-> "CC FLG",
    boltSize |-> 12, boltCount |-> 12, insideDia |-> 3000,
    g0 |-> initialG0, g1 |-> AutoG1(initialG0),
    cClearance |-> 25, shellGapA |-> 30, gasketSeatingWidth |-> 150,
    hasInnerRing |-> TRUE, hasOuterRing |-> TRUE,
    innerRingWidthManual |-> 0, outerRingWidthManual |-> 0,
    useManualOverride |-> FALSE,
    actualBCD |-> 0, actualOD |-> 0, manualSeatingID |-> 0, manualSeatingOD |-> 0,
    manualM |-> 0, manualY |-> 0, manualPassM |-> 0, manualPassY |-> 0,
    designTemp |-> 10000, tempUnit |-> "C",
    designPressure |-> 100, pressureUnit |-> "MPa",
    shellMaterial |-> ASME_SHELL_MATERIALS[1].id,
    jointEfficiency |-> 100, corrosionAllowance |-> 0,
    boltMaterial |-> ASME_BOLT_MATERIALS[2].id,
    passPartitionLength |-> 0, passPartitionWidth |-> 0,
    gasketType |-> GASKET_TYPES[2].id, passGasketType |-> GASKET_TYPES[2].id,
    facingSketch |-> "1a: Flat Face / Groove",
    useHydraulicTensioning |-> FALSE, usePcc1Check |-> FALSE,
    sgT |-> 0, sgMinS |-> 0, sgMinO |-> 0, sgMax |-> 0,
    sbMax |-> 0, sbMin |-> 0, sfMax |-> 0,
    phiFMax |-> 32, phiGMax |-> 100, g |-> 70, passPartAreaReduction |-> 50 ]

(***************************************************************************)
(* The engine: calculateFullResults                                        *)
(***************************************************************************)
\* The geometric pitch PI * finalBCD / boltCount as the fraction num / den
\* of 1/160 mm; den = 0 stands for the double's Infinity or NaN.
PitchGE(pitch, x) ==
  IF pitch.den > 0 THEN pitch.num >= x * pitch.den
  ELSE IF pitch.den < 0 THEN pitch.num <= x * pitch.den
  ELSE pitch.num > 0
PitchLE(pitch, x) ==
  IF pitch.den > 0 THEN pitch.num <= x * pitch.den
  ELSE IF pitch.den < 0 THEN pitch.num >= x * pitch.den
  ELSE pitch.num < 0

\* y * 0.00689476: psi to 1/100 MPa.
PsiToMpa(y) == (y * 6894) \div 10000 + (y * 76) \div 1000000

\* geometricPitch >= boltSpacingMin && geometricPitch <= maxBoltSpacing
SpacingOk(geometricPitch, boltSpacingMin, maxBoltSpacing) ==
  PitchGE(geometricPitch, boltSpacingMin) /\ PitchLE(geometricPitch, maxBoltSpacing)

\* The override taken only when positive: x > 0 ? x : auto.
OverrideOr_PositiveOnly(manual, auto) == IF manual > 0 THEN manual ELSE auto

\* x !== 0 ? x : auto, for a manual override x.
OverrideOr(manual, auto) == IF manual # 0 THEN manual ELSE auto

\* found || fallback, for the row a find returned.
FoundOr(found, fallback) == IF found # Undefined THEN found ELSE fallback

\* The table rows calculateFullResults looks up.
BoltData_ReadsState(currentInputs) ==
  FoundOr(Find(TEMA_BOLT_DATA,
               {i \in DOMAIN TEMA_BOLT_DATA :
                  TEMA_BOLT_DATA[i].size = inputs.boltSize}),
          TEMA_BOLT_DATA[1])
BoltData(currentInputs) ==
  FoundOr(Find(TEMA_BOLT_DATA,
               {i \in DOMAIN TEMA_BOLT_DATA :
                  TEMA_BOLT_DATA[i].size = currentInputs.boltSize}),
          TEMA_BOLT_DATA[1])

TensionData(currentInputs) ==
  Find(HYDRAULIC_TENSIONING_DATA,
       {i \in DOMAIN HYDRAULIC_TENSIONING_DATA :
          HYDRAULIC_TENSIONING_DATA[i].size = currentInputs.boltSize})

RingConfig_FirstRow(currentInputs) ==
  FoundOr(Find(GASKET_RING_TABLE,
               {i \in DOMAIN GASKET_RING_TABLE :
                  /\ currentInputs.insideDia >= GASKET_RING_TABLE[i].min
                  /\ currentInputs.insideDia <= GASKET_RING_TABLE[i].max}),
          GASKET_RING_TABLE[1])
RingConfig(currentInputs) ==
  FoundOr(Find(GASKET_RING_TABLE,
               {i \in DOMAIN GASKET_RING_TABLE :
                  /\ currentInputs.insideDia >= GASKET_RING_TABLE[i].min
                  /\ currentInputs.insideDia <= GASKET_RING_TABLE[i].max}),
          GASKET_RING_TABLE[Len(GASKET_RING_TABLE)])

GType(currentInputs) ==
  FoundOr(Find(GASKET_TYPES,
               {i \in DOMAIN GASKET_TYPES :
                  GASKET_TYPES[i].id = currentInputs.gasketType}),
          GASKET_TYPES[1])

PassGType(currentInputs) ==
  FoundOr(Find(GASKET_TYPES,
               {i \in DOMAIN GASKET_TYPES :
                  GASKET_TYPES[i].id = currentInputs.passGasketType}),
          GType(currentInputs))

BoltMat(currentInputs) ==
  FoundOr(Find(ASME_BOLT_MATERIALS,
               {i \in DOMAIN ASME_BOLT_MATERIALS :
                  ASME_BOLT_MATERIALS[i].id = currentInputs.boltMaterial}),
          ASME_BOLT_MATERIALS[1])

\* WHC_MAX_PITCH_TABLE[boltSize] || (2.5 * boltNominalDia + 12), in 1/160 mm;
\* boltNominalDia = boltSize * 25.4.
WhcMaxPitch(currentInputs) ==
  LET whcFound == Find(WHC_MAX_PITCH_TABLE,
                       {i \in DOMAIN WHC_MAX_PITCH_TABLE :
                          WHC_MAX_PITCH_TABLE[i].size = currentInputs.boltSize})
  IN IF whcFound # Undefined /\ whcFound.pitch # 0
     THEN whcFound.pitch * 16
     ELSE currentInputs.boltSize * 127 * 5 + 12 * 160

\* hasRing ? (manualWidth || tableMin) : 0
RingWidth_IgnoresFlag(hasRing, manualWidth, tableMin) ==
  IF manualWidth # 0 THEN manualWidth ELSE tableMin
RingWidth(hasRing, manualWidth, tableMin) ==
  IF hasRing THEN (IF manualWidth # 0 THEN manualWidth ELSE tableMin) ELSE 0

\* The bolt pitch in 1/16 inch: B_min, or with hydraulic tensioning and a
\* tensioning row the larger of B_min and B_ten.
EffectiveBMin(useHydraulicTensioning, boltRow, tensionRow) ==
  IF useHydraulicTensioning /\ tensionRow # Undefined
  THEN Max2(boltRow.B_min, tensionRow.B_ten)
  ELSE boltRow.B_min

\* Math.ceil((effectiveBMin * 25.4 * boltCount) / Math.PI), in dmm;
\* 25.4 mm = 127 / 80 mm per 1/16 inch.
BcdMethod1_PerBolt(effectiveBMin, boltCount) ==
  10 * CeilDiv(effectiveBMin * 127 * PI_D * 100, 80 * PI_N * (boltCount + 1))
BcdMethod1(effectiveBMin, boltCount) ==
  10 * CeilDiv(effectiveBMin * 127 * boltCount * PI_D, 80 * PI_N)

bConst == 15

\* Ring widths, clearances, bolt row figures and the BCD candidates of
\* methods 1 and 2.
Sizing(currentInputs) ==
  LET boltRow == BoltData(currentInputs)
      ringRow == RingConfig(currentInputs)
      effectiveBMin == EffectiveBMin(currentInputs.useHydraulicTensioning, boltRow,
                                     TensionData(currentInputs))
      maxBoltSpacing == WhcMaxPitch(currentInputs)
  IN [ innerRingWidth |-> RingWidth(currentInputs.hasInnerRing,
                                    currentInputs.innerRingWidthManual, ringRow.irMin),
       outerRingWidth |-> RingWidth(currentInputs.hasOuterRing,
                                    currentInputs.outerRingWidthManual, ringRow.orMin),
       effectiveC |-> IF currentInputs.cClearance # 0 THEN currentInputs.cClearance ELSE 25,
       shellGapA |-> currentInputs.shellGapA,
       boltHoleSize |-> 10 * CeilDiv(boltRow.holeSize, 10),
       bcdMethod1 |-> BcdMethod1(effectiveBMin, currentInputs.boltCount),
       \* radialDistance and edgeDistance in 1/80 mm
       radialDistance |-> boltRow.R * 127,
       bcdMethod2 |-> 10 * CeilDiv(8 * currentInputs.insideDia + 16 * currentInputs.g1
                                   + 2 * (boltRow.R * 127), 80),
       edgeDistance |-> boltRow.E * 127,
       \* pitches in 1/160 mm
       boltSpacingMin |-> effectiveBMin * 254,
       maxBoltSpacing |-> maxBoltSpacing, actualBoltSpacing |-> maxBoltSpacing,
       gasketSeatingWidth |-> currentInputs.gasketSeatingWidth,
       nWidth |-> currentInputs.gasketSeatingWidth,
       singleBoltArea |-> boltRow.tensileArea,
       totalBoltArea |-> boltRow.tensileArea * currentInputs.boltCount ]

\* The seating OD that puts the bolt holes of the larger of methods 1 and 2
\* just outside the gasket.
AutoSeatingOD_BCD_KeepsRing(r) ==
  Max2(r.bcdMethod1, r.bcdMethod2) - r.boltHoleSize
  - (2 * r.effectiveC) - (2 * bConst)
AutoSeatingOD_BCD(r) ==
  Max2(r.bcdMethod1, r.bcdMethod2) - r.boltHoleSize
  - (2 * r.effectiveC) - (2 * bConst) - (2 * r.outerRingWidth)

\* The seating OD that puts the gasket just outside the shell.
AutoSeatingOD_Shell(currentInputs, r) ==
  currentInputs.insideDia + (2 * r.shellGapA) + (2 * r.innerRingWidth)
  + (2 * currentInputs.gasketSeatingWidth)

\* The gasket seating diameters, the gasket diameters and the BCD candidate
\* of method 3.
Seating(currentInputs, r) ==
  LET autoSeatingOD_BCD == AutoSeatingOD_BCD(r)
      autoSeatingOD_Shell == AutoSeatingOD_Shell(currentInputs, r)
      autoSeatingOD == Max2(autoSeatingOD_BCD, autoSeatingOD_Shell)
      autoSeatingID == autoSeatingOD - (2 * currentInputs.gasketSeatingWidth)
      seatingID == OverrideOr(currentInputs.manualSeatingID, autoSeatingID)
      seatingOD == OverrideOr(currentInputs.manualSeatingOD, autoSeatingOD)
      gasketOD == seatingOD
                  + (IF currentInputs.hasOuterRing THEN 2 * r.outerRingWidth ELSE 0)
  IN r @@ [ seatingID |-> seatingID, seatingOD |-> seatingOD,
            gasketOD |-> gasketOD,
            gasketID |-> seatingID
                         - (IF currentInputs.hasInnerRing THEN 2 * r.innerRingWidth ELSE 0),
            bcdMethod3 |-> gasketOD + (2 * bConst) + (2 * r.effectiveC) + r.boltHoleSize ]

\* bcdTema === bcdMethod1 ? 1 : (bcdTema === bcdMethod2 ? 2 : 3)
SelectedBcdSource_SkipsTwo(bcdTema, bcdMethod1, bcdMethod2) ==
  IF bcdTema = bcdMethod1 THEN 1 ELSE 3
SelectedBcdSource(bcdTema, bcdMethod1, bcdMethod2) ==
  IF bcdTema = bcdMethod1 THEN 1 ELSE IF bcdTema = bcdMethod2 THEN 2 ELSE 3

\* Math.max(bcdMethod1, bcdMethod2, bcdMethod3)
BcdTema_WithoutMethod1(bcdMethod1, bcdMethod2, bcdMethod3) ==
  Max2(bcdMethod2, bcdMethod3)
BcdTema(bcdMethod1, bcdMethod2, bcdMethod3) ==
  Max2(Max2(bcdMethod1, bcdMethod2), bcdMethod3)

\* The governing BCD, the final BCD and OD, and the bolt pitch.
Circle(currentInputs, r) ==
  LET bcdTema == BcdTema(r.bcdMethod1, r.bcdMethod2, r.bcdMethod3)
      finalBCD == OverrideOr(currentInputs.actualBCD, bcdTema)
      odTema == 10 * CeilDiv(8 * finalBCD + 2 * r.edgeDistance, 80)
      \* the pitch in 1/160 mm
      geometricPitch == [num |-> PI_N * finalBCD * 16,
                         den |-> PI_D * currentInputs.boltCount]
  IN r @@ [ bcdTema |-> bcdTema,
            selectedBcdSource |-> SelectedBcdSource(bcdTema, r.bcdMethod1, r.bcdMethod2),
            finalBCD |-> finalBCD,
            odTema |-> odTema,
            finalOD |-> OverrideOr(currentInputs.actualOD, odTema),
            maxRaisedFace |-> finalBCD - r.boltHoleSize - (2 * r.effectiveC)
                              - (2 * bConst) - (2 * r.outerRingWidth),
            geometricPitch |-> geometricPitch,
            spacingOk |-> SpacingOk(geometricPitch, r.boltSpacingMin, r.maxBoltSpacing) ]

\* The gasket factors m and y of the ring and of the pass-partition strip.
Factors(currentInputs, r) ==
  r @@ [ gasketM |-> OverrideOr(currentInputs.manualM, GType(currentInputs).m),
         gasketY |-> OverrideOr(currentInputs.manualY, GType(currentInputs).y),
         passM |-> OverrideOr(currentInputs.manualPassM, PassGType(currentInputs).m),
         passY |-> OverrideOr(currentInputs.manualPassY, PassGType(currentInputs).y) ]

\* The basic width b0 by facing sketch, in um.
B0Width(nWidth, code) ==
  IF code \in {"1a", "1b"} THEN (nWidth * 100) \div 2
  ELSE IF code \in {"1c", "1d"} THEN (nWidth * 100) \div 4
  ELSE IF code = "2" THEN (nWidth * 100) \div 8
  ELSE (nWidth * 100) \div 2

\* The effective width b in um: 0.5 * Cul * sqrt(b0 / Cul) = sqrt(6.35 * b0)
\* with Cul = 25.4 when b0 > 6 mm, else b0.
BWidth(b0Width) == IF b0Width > 6000 THEN Sqrt(6350 * b0Width) ELSE b0Width

\* The gasket contact widths and the mean gasket diameter G, in um.
Contact(currentInputs, r) ==
  LET b0Width == B0Width(currentInputs.gasketSeatingWidth,
                         SketchCode(currentInputs.facingSketch))
  IN r @@ [ b0Width |-> b0Width,
            bWidth |-> BWidth(b0Width),
            gMeanDia |-> IF b0Width > 6000 THEN r.seatingOD * 100 - (2 * BWidth(b0Width))
                         ELSE ((r.seatingID + r.seatingOD) * 100) \div 2 ]

\* The contact areas of the ring and of the pass-partition strip, in mm^2.
RingContact(bWidth, gDia) == (((bWidth * gDia) \div 1000) * PI_N) \div (PI_D * 10)
PassContact(currentInputs) ==
  (currentInputs.passPartitionWidth * currentInputs.passPartitionLength) \div 100

\* The hydrostatic end force H, the contact force Hp and the bolt loads Wm1
\* and Wm2, in N; gDia in dmm, its square in mm^2.
Loads(currentInputs, r, pMpa, gDia) ==
  LET hForce == (((785 * ((gDia * gDia) \div 100)) \div 1000) * pMpa) \div 1000
      hpForce == (2 * pMpa * ((RingContact(r.bWidth, gDia) * r.gasketM
                               + PassContact(currentInputs) * r.passM) \div 100))
                 \div 1000
  IN r @@ [ hForce |-> hForce, hpForce |-> hpForce,
            wm1 |-> hForce + hpForce,
            wm2 |-> (RingContact(r.bWidth, gDia) * PsiToMpa(r.gasketY)) \div 100
                    + (PassContact(currentInputs) * PsiToMpa(r.passY)) \div 100 ]

\* The allowable bolt stresses, the required bolt area in mm^2 and the bolt
\* loads in N.
Bolting(r, ambientAllowableStress, designAllowableStress) ==
  r @@ [ ambientAllowableStress |-> ambientAllowableStress,
         designAllowableStress |-> designAllowableStress,
         reqAreaOperating |-> XDiv(r.wm1, designAllowableStress, 1),
         reqAreaSeating |-> XDiv(r.wm2, ambientAllowableStress, 1),
         requiredBoltArea |-> XMax(XDiv(r.wm1, designAllowableStress, 1),
                                   XDiv(r.wm2, ambientAllowableStress, 1)),
         totalBoltLoadAmbient |-> (r.totalBoltArea * ambientAllowableStress) \div 10,
         totalBoltLoadDesign |-> (r.totalBoltArea * designAllowableStress) \div 10 ]

\* The steps of calculateFullResults, each on the figures of the steps before.
Geometry(currentInputs) ==
  Contact(currentInputs,
    Factors(currentInputs,
      Circle(currentInputs, Seating(currentInputs, Sizing(currentInputs)))))

LoadsOf(currentInputs, r) ==
  Loads(currentInputs, r,
        toMpa(currentInputs.designPressure, currentInputs.pressureUnit),
        r.gMeanDia \div 100)

calculateFullResults(currentInputs) ==
  Bolting(LoadsOf(currentInputs, Geometry(currentInputs)),
          CleanStress(BoltMat(currentInputs).stresses[2]),
          interpolateStress(toCelsius(currentInputs.designTemp, currentInputs.tempUnit),
                            BoltMat(currentInputs).stresses))

(***************************************************************************)
(* The design-space search: performSearch                                  *)
(***************************************************************************)
counts == << 4, 8, 12, 16, 20, 24, 28, 32, 36, 40, 44, 48, 52, 56, 60, 64, 68, 72, 76, 80 >>

\* The copy with the gasket factor overrides cleared as well.
OptimizedTargetInputs_ClearsAll(targetInputs) ==
  [targetInputs EXCEPT !.useManualOverride = FALSE, !.actualBCD = 0, !.actualOD = 0,
                       !.manualSeatingID = 0, !.manualSeatingOD = 0,
                       !.manualM = 0, !.manualY = 0,
                       !.manualPassM = 0, !.manualPassY = 0]

\* The copy of the Design Input the search works on.
OptimizedTargetInputs(targetInputs) ==
  [targetInputs EXCEPT !.useManualOverride = FALSE, !.actualBCD = 0, !.actualOD = 0,
                       !.manualSeatingID = 0, !.manualSeatingOD = 0]

\* TEMA_BOLT_DATA.filter(b => b.size >= 0.75).map(b => b.size)
RECURSIVE FilteredSizes(_)
FilteredSizes(i) ==
  IF i > Len(TEMA_BOLT_DATA) THEN << >>
  ELSE IF TEMA_BOLT_DATA[i].size >= 12
       THEN << TEMA_BOLT_DATA[i].size >> \o FilteredSizes(i + 1)
       ELSE FilteredSizes(i + 1)

\* The size list with the fixedSize flag ignored.
SizesToSearch_IgnoresFixed(fixedSize, optimizedTargetInputs) ==
  FilteredSizes(1)

SizesToSearch(fixedSize, optimizedTargetInputs) ==
  IF fixedSize THEN << optimizedTargetInputs.boltSize >> ELSE FilteredSizes(1)

TestInputs(optimizedTargetInputs, size, count) ==
  [optimizedTargetInputs EXCEPT !.boltSize = size, !.boltCount = count]

\* Math.max(results.wm1, results.wm2)
RequiredLoad(results) == Max2(results.wm1, results.wm2)

\* ((avail - req) / req) * 100, in percent
Margin(avail, req) == XDiv(avail - req, req, 2)

\* margin >= 0 && testResults.spacingOk
Accepts(testResults) ==
  XGeZero(Margin(testResults.totalBoltLoadDesign, RequiredLoad(testResults)))
  /\ testResults.spacingOk

\* req < minRequiredLoad, minRequiredLoad starting at Infinity
Improves(req, minRequiredLoad) ==
  minRequiredLoad.k = "inf" \/ (minRequiredLoad.k = "fin" /\ req < minRequiredLoad.v)

\* The locals of performSearch on entry to its loops.
StartFrame(targetInputs, fixedSize) ==
  LET optimizedTargetInputs == OptimizedTargetInputs(targetInputs)
  IN [ targetInputs |-> targetInputs, fixedSize |-> fixedSize,
       optimizedTargetInputs |-> optimizedTargetInputs,
       bestSize |-> optimizedTargetInputs.boltSize,
       bestCount |-> optimizedTargetInputs.boltCount,
       minRequiredLoad |-> PosInf, found |-> FALSE,
       sizesToSearch |-> SizesToSearch(fixedSize, optimizedTargetInputs),
       si |-> 1, ci |-> 1,
       testInputs |-> << >>, evaluated |-> << >> ]

LoopDone(frame) == frame.si > Len(frame.sizesToSearch)

\* The body of the inner loop for one pair, given the engine's results for
\* it; last tells that the pair is the last one of its size.
TryPair(frame, testInputs, testResults, last) ==
  LET better == /\ Accepts(testResults)
                /\ Improves(RequiredLoad(testResults), frame.minRequiredLoad)
  IN [ frame EXCEPT
         !.minRequiredLoad = IF better THEN Fin(RequiredLoad(testResults)) ELSE @,
         !.bestSize = IF better THEN testInputs.boltSize ELSE @,
         !.bestCount = IF better THEN testInputs.boltCount ELSE @,
         !.found = IF better THEN TRUE ELSE @,
         !.si = IF last THEN @ + 1 ELSE @,
         !.ci = IF last THEN 1 ELSE @ + 1,
         !.testInputs = << testInputs >>,
         !.evaluated = Append(@, << testInputs.boltSize, testInputs.boltCount >>) ]

\* The inner loop leaving one count early: for (... count of counts.slice(0, -1)).
StepFrame_SkipsLast(frame) ==
  LET testInputs == TestInputs(frame.optimizedTargetInputs,
                               frame.sizesToSearch[frame.si], counts[frame.ci])
  IN TryPair(frame, testInputs, calculateFullResults(testInputs),
             frame.ci >= Len(counts) - 1)

\* One pass of the inner loop body, for sizesToSearch[si] and counts[ci].
StepFrame(frame) ==
  LET testInputs == TestInputs(frame.optimizedTargetInputs,
                               frame.sizesToSearch[frame.si], counts[frame.ci])
  IN TryPair(frame, testInputs, calculateFullResults(testInputs),
             frame.ci = Len(counts))

\* setInputs writing the winner only, the overrides left in place.
AppliedInputs_KeepsOverrides(prev, bestSize, bestCount) ==
  [prev EXCEPT !.boltSize = bestSize, !.boltCount = bestCount]

\* setInputs without useManualOverride: false.
AppliedInputs_KeepsMode(prev, bestSize, bestCount) ==
  [prev EXCEPT !.boltSize = bestSize, !.boltCount = bestCount,
               !.actualBCD = 0, !.actualOD = 0,
               !.manualSeatingID = 0, !.manualSeatingOD = 0]

\* setInputs(prev => ...) of the successful search.
AppliedInputs(prev, bestSize, bestCount) ==
  [prev EXCEPT !.boltSize = bestSize, !.boltCount = bestCount,
               !.useManualOverride = FALSE, !.actualBCD = 0, !.actualOD = 0,
               !.manualSeatingID = 0, !.manualSeatingOD = 0]

\* ((finalResults.totalBoltLoadDesign - finalReq) / finalReq) * 100
FinalMargin(finalResults) ==
  Margin(finalResults.totalBoltLoadDesign, RequiredLoad(finalResults))

\* The alert of the successful search.
CompletedAlert(frame) ==
  [ kind |-> "completed", fixedSize |-> frame.fixedSize,
    boltSize |-> frame.bestSize, boltCount |-> frame.bestCount,
    minRequiredLoad |-> frame.minRequiredLoad,
    finalMargin |-> FinalMargin(calculateFullResults(
                      TestInputs(frame.optimizedTargetInputs,
                                 frame.bestSize, frame.bestCount))) ]

\* The alert of the failed search.
NotFoundAlert(frame) ==
  [ kind |-> "notfound", fixedSize |-> frame.fixedSize,
    boltSize |-> frame.optimizedTargetInputs.boltSize,
    boltCount |-> frame.optimizedTargetInputs.boltCount,
    minRequiredLoad |-> frame.minRequiredLoad, finalMargin |-> NaN ]

(***************************************************************************)
(* Alternative stress-selection check: pccStatusInfo                       *)
(***************************************************************************)
\* Math.min(x, limit || Infinity); limit in dMPa, x and the result in kPa.
MinOrInfinity(x, limit) == IF limit = 0 THEN x ELSE Min2(x, limit * 100)

\* Math.max(x, limit || 0)
MaxOrZero(x, limit) == Max2(x, limit * 100)

\* Math.min(valA, valB, valC)
SbSelFinal(valA, valB, valC) == Min2(Min2(valA, valB), valC)

\* The locals of the pccStatusInfo memo; stresses in kPa, areas in mm^2.
PccSteps(in, results) ==
  LET totalBoltRootArea == results.singleBoltArea * in.boltCount
      ringArea == ((((results.seatingOD - results.seatingID)
                     * (results.seatingOD + results.seatingID)) \div 100) * PI_N)
                  \div (PI_D * 4)
      reducedPassArea == (in.passPartAreaReduction
                          * ((in.passPartitionWidth * in.passPartitionLength) \div 100))
                         \div 100
      totalAg == ringArea + reducedPassArea
      sbSelCalc == IF totalBoltRootArea > 0
                   THEN ScaleDiv(in.sgT * totalAg, 2, totalBoltRootArea) ELSE 0
      valA == MinOrInfinity(sbSelCalc, in.sbMax)
      valB == MaxOrZero(valA, in.sbMin)
      valC == MinOrInfinity(valB, in.sfMax)
      sbSelFinal == SbSelFinal(valA, valB, valC)
      pMpa == toMpa(in.designPressure, in.pressureUnit)
      gOr1 == IF in.g # 0 THEN in.g ELSE 100
      step5Threshold == IF totalBoltRootArea > 0
                        THEN ScaleDiv(in.sgMinS * totalAg, 2, totalBoltRootArea) ELSE 0
      \* in 1/10 N
      step6Numerator == in.sgMinO * totalAg
                        + 10 * ((((PI_N * ((results.seatingID * results.seatingID) \div 100))
                                  \div (PI_D * 4)) * pMpa) \div 1000)
      \* in 1/100 mm^2
      step6Denominator == gOr1 * totalBoltRootArea
      step6Threshold == IF totalBoltRootArea > 0
                        THEN XDiv(step6Numerator, step6Denominator, 4) ELSE Fin(0)
      step7Threshold == IF totalBoltRootArea > 0
                        THEN Fin(ScaleDiv(in.sgMax * totalAg, 2, totalBoltRootArea))
                        ELSE PosInf
      step8Threshold == IF in.phiFMax > 0
                        THEN Fin(ScaleDiv(in.sfMax * gOr1, 2, in.phiFMax)) ELSE PosInf
      \* x >= t - 0.001 and x <= t + 0.001 for an extended threshold t
      GeSlack(x, t) == t.k = "ninf" \/ (t.k = "fin" /\ x >= t.v - 1)
      LeSlack(x, t) == t.k = "inf" \/ (t.k = "fin" /\ x <= t.v + 1)
  IN [ totalBoltRootArea |-> totalBoltRootArea, totalAg |-> totalAg,
       sbSelCalc |-> sbSelCalc, valA |-> valA, valB |-> valB, valC |-> valC,
       sbSelFinal |-> sbSelFinal,
       step5Threshold |-> step5Threshold, step6Threshold |-> step6Threshold,
       step7Threshold |-> step7Threshold, step8Threshold |-> step8Threshold,
       isStep5Ok |-> sbSelFinal >= step5Threshold - 1,
       isStep6Ok |-> GeSlack(sbSelFinal, step6Threshold),
       isStep7Ok |-> IF in.sgMax = 0 THEN TRUE ELSE LeSlack(sbSelFinal, step7Threshold),
       isStep8Ok |-> IF in.phiFMax = 0 THEN TRUE ELSE LeSlack(sbSelFinal, step8Threshold) ]

pccStatusInfo(in, results) ==
  IF ~in.usePcc1Check THEN [active |-> FALSE, safe |-> TRUE]
  ELSE LET p == PccSteps(in, results)
       IN [active |-> TRUE,
           safe |-> p.isStep5Ok /\ p.isStep6Ok /\ p.isStep7Ok /\ p.isStep8Ok]

(***************************************************************************)
(* Form handlers of the Calculator, and handleInputChange                  *)
(***************************************************************************)
\* gasketType.toLowerCase().includes(word), for the ids of GASKET_TYPES
TypeIncludes(gasketType, word) ==
  \/ word = "grooved" /\ gasketType = "Grooved metal"
  \/ word = "spiral" /\ gasketType = "Spiral-wound"

updatePcc1Values(gasketType, currentInputs) ==
  LET byType ==
        IF TypeIncludes(gasketType, "grooved")
        THEN [currentInputs EXCEPT !.sgMax = 3800, !.sgMinS = 1400, !.sgMinO = 970]
        ELSE IF TypeIncludes(gasketType, "corruga")
        THEN [currentInputs EXCEPT !.sgMax = 2750, !.sgMinS = 1400, !.sgMinO = 970]
        ELSE IF TypeIncludes(gasketType, "spiral")
        THEN [currentInputs EXCEPT !.sgMax = 0, !.sgMinS = 1400, !.sgMinO = 970]
        ELSE currentInputs
      mat == Find(ASME_BOLT_MATERIALS,
                   {i \in DOMAIN ASME_BOLT_MATERIALS :
                      ASME_BOLT_MATERIALS[i].id = byType.boltMaterial})
      \* Math.round(minYield * 0.7 * 10) / 10, in dMPa
      byMat == IF mat # Undefined /\ mat.minYield # 0
               THEN [byType EXCEPT !.sbMax = mat.minYield * 7, !.sbMin = mat.minYield * 4]
               ELSE byType
  IN [byMat EXCEPT !.phiFMax = IF @ = 0 THEN 32 ELSE @,
                   !.g = IF @ = 0 THEN 70 ELSE @,
                   !.passPartAreaReduction = IF @ = 0 THEN 50 ELSE @]

g0Triggers == {"designTemp", "tempUnit", "designPressure", "pressureUnit",
               "shellMaterial", "jointEfficiency", "insideDia", "corrosionAllowance"}
designConditions == {"designTemp", "tempUnit", "designPressure", "pressureUnit",
                     "shellMaterial", "boltMaterial", "gasketType", "passGasketType",
                     "facingSketch", "jointEfficiency", "corrosionAllowance"}
geometryTriggers == {"boltSize", "insideDia"}

\* finalInputs of handleInputChange
FinalInputs_KeepsG1(updatedInputs, changedFieldName) ==
  IF changedFieldName \in g0Triggers
  THEN [updatedInputs EXCEPT !.g0 = calculateAutoG0(updatedInputs)]
  ELSE updatedInputs
FinalInputs(updatedInputs, changedFieldName) ==
  IF changedFieldName \in g0Triggers
  THEN LET autoG0 == calculateAutoG0(updatedInputs)
       IN [updatedInputs EXCEPT !.g0 = autoG0, !.g1 = AutoG1(autoG0)]
  ELSE updatedInputs

\* isFixedSizeSearch after handleInputChange
SearchMode_SizeOnly(mode, changedFieldName) ==
  IF changedFieldName \in designConditions THEN FALSE
  ELSE IF changedFieldName = "boltSize" THEN TRUE
  ELSE mode
SearchMode(mode, changedFieldName) ==
  IF changedFieldName \in designConditions THEN FALSE
  ELSE IF changedFieldName \in geometryTriggers THEN TRUE
  ELSE mode

(***************************************************************************)
(* State                                                                   *)
(***************************************************************************)
vars == << inputs, isFixedSizeSearch, search, alert, call,
           savedRecords, editingRecordId, now >>

Idle == search = << >> /\ alert = << >>

Init ==
  /\ inputs = initialInputs
  /\ isFixedSizeSearch = FALSE
  /\ search = << >>
  /\ alert = << >>
  /\ call = << >>
  /\ savedRecords = << >>
  /\ editingRecordId = Null
  /\ now = 0

(***************************************************************************)
(* Search handlers                                                         *)
(***************************************************************************)
handleOptimize ==
  /\ Idle
  /\ search' = << StartFrame(inputs, isFixedSizeSearch) >>
  /\ UNCHANGED << inputs, isFixedSizeSearch, alert, call, savedRecords, editingRecordId, now >>

handleResetAndOptimize ==
  /\ Idle
  /\ isFixedSizeSearch' = FALSE
  /\ search' = << StartFrame(inputs, FALSE) >>
  /\ UNCHANGED << inputs, alert, call, savedRecords, editingRecordId, now >>

SearchStep ==
  /\ search # << >> /\ alert = << >>
  /\ ~LoopDone(search[1])
  /\ search' = << StepFrame(search[1]) >>
  /\ UNCHANGED << inputs, isFixedSizeSearch, alert, call, savedRecords, editingRecordId, now >>

SearchFound ==
  /\ search # << >> /\ alert = << >>
  /\ LoopDone(search[1])
  /\ search[1].found
  /\ inputs' = AppliedInputs(inputs, search[1].bestSize, search[1].bestCount)
  /\ alert' = << CompletedAlert(search[1]) >>
  /\ UNCHANGED << isFixedSizeSearch, search, call, savedRecords, editingRecordId, now >>

\* setInputs called outside of if (found).
SearchNotFound_Applies ==
  /\ search # << >> /\ alert = << >>
  /\ LoopDone(search[1])
  /\ ~search[1].found
  /\ inputs' = AppliedInputs(inputs, search[1].bestSize, search[1].bestCount)
  /\ alert' = << NotFoundAlert(search[1]) >>
  /\ UNCHANGED << isFixedSizeSearch, search, call, savedRecords, editingRecordId, now >>

SearchNotFound ==
  /\ search # << >> /\ alert = << >>
  /\ LoopDone(search[1])
  /\ ~search[1].found
  /\ alert' = << NotFoundAlert(search[1]) >>
  /\ UNCHANGED << inputs, isFixedSizeSearch, search, call, savedRecords, editingRecordId, now >>

\* The user closes the alert; performSearch returns.
DismissAlert ==
  /\ alert # << >>
  /\ search' = << >>
  /\ alert' = << >>
  /\ UNCHANGED << inputs, isFixedSizeSearch, call, savedRecords, editingRecordId, now >>

Searching == handleOptimize \/ handleResetAndOptimize \/ SearchStep
             \/ SearchFound \/ SearchNotFound \/ DismissAlert

(***************************************************************************)
(* Input handlers                                                          *)
(***************************************************************************)
handleInputChange(updatedInputs, changedFieldName) ==
  /\ Idle
  /\ inputs' = FinalInputs(updatedInputs, changedFieldName)
  /\ isFixedSizeSearch' = SearchMode(isFixedSizeSearch, changedFieldName)
  /\ UNCHANGED << search, alert, call, savedRecords, editingRecordId, now >>

\* The fields the form shows only in manual mode, and only with the PCC-1 check.
ManualFields == {"actualBCD", "actualOD", "manualM", "manualY", "manualPassM",
                 "manualPassY", "manualSeatingID", "manualSeatingOD"}
Pcc1Fields == {"sgT", "sgMinS", "sgMinO", "sgMax", "sbMax", "sbMin", "sfMax",
               "phiFMax", "g", "passPartAreaReduction"}
Shown(name) ==
  /\ name \in ManualFields => inputs.useManualOverride
  /\ name \in Pcc1Fields => inputs.usePcc1Check

\* handleChange, a number field: val = parseFloat(value) || 0
ChangeNumber(name, val) ==
  /\ Shown(name)
  /\ handleInputChange(
       IF name = "g0" THEN [inputs EXCEPT !.g0 = val, !.g1 = AutoG1(val)]
       ELSE [inputs EXCEPT ![name] = val],
       name)

\* handleChange, one of the text fields and selects
ChangeSelect(name, value) ==
  LET nextInputs == [inputs EXCEPT ![name] = value]
  IN handleInputChange(
       IF nextInputs.usePcc1Check /\ name \in {"gasketType", "boltMaterial"}
       THEN updatePcc1Values(nextInputs.gasketType, nextInputs)
       ELSE nextInputs,
       name)

toggleManualMode ==
  handleInputChange([inputs EXCEPT !.useManualOverride = ~@], "useManualOverride")

togglePcc1Check ==
  LET nextInputs == [inputs EXCEPT !.usePcc1Check = ~@]
  IN handleInputChange(
       IF nextInputs.usePcc1Check THEN updatePcc1Values(inputs.gasketType, nextInputs)
       ELSE nextInputs,
       "usePcc1Check")

(***************************************************************************)
(* Specifications.  Each explores the edits of one group of fields, from   *)
(* the Design Input the application starts with.                           *)
(***************************************************************************)
\* Loads: pressure, temperature, the pass-partition strip and its seating stress.
LoadNumbers ==
  [ designPressure |-> {-100, 100},
    designTemp |-> {10000, 40000},
    passPartitionWidth |-> {0, 200},
    passPartitionLength |-> {0, 3000},
    manualPassY |-> {0, -17000} ]

EditLoads ==
  \/ \E name \in DOMAIN LoadNumbers : \E val \in LoadNumbers[name] : ChangeNumber(name, val)
  \/ toggleManualMode

Next == Searching \/ EditLoads
Spec == Init /\ [][Next]_vars

\* Manual overrides: explicit BCD and OD, seating diameters, gasket factors.
OverrideNumbers ==
  [ actualBCD |-> {0, 9000},
    actualOD |-> {0, 9500},
    manualSeatingID |-> {0, 3300},
    manualSeatingOD |-> {0, 3600},
    manualM |-> {0, 200},
    manualY |-> {0, 72000} ]

EditOverrides ==
  \/ \E name \in DOMAIN OverrideNumbers : \E val \in OverrideNumbers[name] :
       ChangeNumber(name, val)
  \/ toggleManualMode

NextOverride == Searching \/ EditOverrides
SpecOverride == Init /\ [][NextOverride]_vars

\* Fixed-size searches: the bolt size chosen by hand, with and without an
\* explicit BCD, at a temperature the bolts can take and at one they cannot.
FixedNumbers ==
  [ boltSize |-> {12, 14},
    actualBCD |-> {0, 9000},
    designTemp |-> {10000, 40000} ]

EditFixed ==
  \/ \E name \in DOMAIN FixedNumbers : \E val \in FixedNumbers[name] :
       ChangeNumber(name, val)
  \/ toggleManualMode

NextFixed == Searching \/ EditFixed
SpecFixed == Init /\ [][NextFixed]_vars

\* The alternative stress-selection check: its switch, the target gasket
\* stress, the bolt and flange stress limits, the bolt material and count.
PccNumbers ==
  [ sgT |-> {0, 400, 6000},
    sbMax |-> {0, 5075},
    sbMin |-> {0, 2900},
    sfMax |-> {0, 2000, 6000},
    boltCount |-> {12, 40} ]
PccSelects ==
  [ boltMaterial |-> {"SA-307 B", "SA-193 B7"} ]

EditPcc ==
  \/ \E name \in DOMAIN PccNumbers : \E val \in PccNumbers[name] : ChangeNumber(name, val)
  \/ \E name \in DOMAIN PccSelects : \E value \in PccSelects[name] :
       ChangeSelect(name, value)
  \/ togglePcc1Check

NextPcc == EditPcc
SpecPcc == Init /\ [][NextPcc]_vars

(***************************************************************************)
(* What the claims speak of                                                *)
(***************************************************************************)
\* The (size, count) pairs of a search in iteration order: sizes in the order
\* of sizesToSearch, counts ascending.
Grid(frame) ==
  [k \in 1..(Len(frame.sizesToSearch) * Len(counts)) |->
     << frame.sizesToSearch[((k - 1) \div Len(counts)) + 1],
        counts[((k - 1) % Len(counts)) + 1] >>]

\* The engine's results for a pair of a search, evaluated on their own.
PairResults(frame, pair) ==
  calculateFullResults([frame.optimizedTargetInputs EXCEPT
                          !.boltSize = pair[1], !.boltCount = pair[2]])

\* Feasibility as the specification words it: the pitch within its bounds
\* and the available design load at least the required load.
Feasible(results) ==
  /\ PitchGE(results.geometricPitch, results.boltSpacingMin)
  /\ PitchLE(results.geometricPitch, results.maxBoltSpacing)
  /\ results.totalBoltLoadDesign >= Max2(results.wm1, results.wm2)

SearchRunning == search # << >> /\ alert = << >>
SearchSucceeded == alert # << >> /\ alert[1].kind = "completed"
SearchFailed == alert # << >> /\ alert[1].kind = "notfound"

\* C9: every pair the search evaluates is accepted exactly when it is feasible.
C9_AcceptsIffFeasible ==
  (search # << >> /\ search[1].testInputs # << >>) =>
    LET testResults == calculateFullResults(search[1].testInputs[1])
    IN Accepts(testResults) <=> Feasible(testResults)

\* C4: the winner of a successful search has the smallest required load among
\* the feasible pairs of the grid, and no feasible pair before it in iteration
\* order has the same load.
C4_MinimalFirst ==
  SearchSucceeded =>
    LET frame == search[1]
        grid == Grid(frame)
        best == Max2(PairResults(frame, << alert[1].boltSize, alert[1].boltCount >>).wm1,
                     PairResults(frame, << alert[1].boltSize, alert[1].boltCount >>).wm2)
        w == CHOOSE k \in 1..Len(grid) :
               grid[k] = << alert[1].boltSize, alert[1].boltCount >>
    IN /\ \E k \in 1..Len(grid) : grid[k] = << alert[1].boltSize, alert[1].boltCount >>
       /\ \A k \in 1..Len(grid) :
            LET r == PairResults(frame, grid[k])
            IN Feasible(r) =>
                 /\ Max2(r.wm1, r.wm2) >= best
                 /\ (k < w => Max2(r.wm1, r.wm2) > best)

NoFeasiblePair(frame) ==
  \A k \in 1..Len(Grid(frame)) : ~Feasible(PairResults(frame, Grid(frame)[k]))

\* C6: a search that reports failure leaves the Design Input as it was before
\* the search, and a search over a grid with no feasible pair reports failure.
C6_FailureLeavesInputs ==
  search # << >> =>
    /\ (SearchRunning \/ SearchFailed) => inputs = search[1].targetInputs
    /\ (alert # << >> /\ NoFeasiblePair(search[1])) => SearchFailed

C6_Witness ==
  SearchFailed /\ NoFeasiblePair(search[1]) /\ Len(search[1].evaluated) > 0

SearchLoop == SearchStep \/ SearchFound \/ SearchNotFound

\* Searches in both modes, over one and over all sizes, that succeed (100 C)
\* and that fail (400 C).
SizeNumbers ==
  [ boltSize |-> {12, 14},
    designTemp |-> {10000, 40000} ]

EditSizes ==
  \E name \in DOMAIN SizeNumbers : \E val \in SizeNumbers[name] : ChangeNumber(name, val)

NextLive == Searching \/ EditSizes

\* The search loop is synchronous code: once started it runs on to its alert.
\* This is weak fairness of SearchLoop, WF_vars(SearchLoop), with
\* ENABLED <<SearchLoop>>_vars written out as SearchRunning: a running search
\* has a pair left to try or has left its loops and raises one of its alerts.
LiveSpec ==
  Init /\ [][NextLive]_vars /\ ([]<>(~SearchRunning) \/ []<><<SearchLoop>>_vars)

IsPrefix(s, t) == Len(s) <= Len(t) /\ s = SubSeq(t, 1, Len(s))

EvaluatedInOrder ==
  search # << >> =>
    LET frame == search[1]
        grid == Grid(frame)
    IN /\ IsPrefix(frame.evaluated, grid)
       /\ \A i, k \in 1..Len(grid) : grid[i] = grid[k] => i = k
       /\ Len(grid) <= Len(FilteredSizes(1)) * Len(counts)
       /\ Len(counts) = 20
       /\ alert # << >> =>
            /\ frame.evaluated = grid
            /\ alert[1].kind \in {"completed", "notfound"}

C3_WinnerFeasible ==
  SearchSucceeded =>
    LET results == calculateFullResults(inputs)
    IN /\ results.spacingOk
       /\ results.totalBoltLoadDesign >= Max2(results.wm1, results.wm2)
       /\ inputs.boltSize = alert[1].boltSize
       /\ inputs.boltCount = alert[1].boltCount

\* A success from a Design Input whose own overrides made it infeasible.
C3_Witness ==
  /\ SearchSucceeded
  /\ search[1].targetInputs.actualBCD # 0
  /\ ~calculateFullResults([search[1].targetInputs EXCEPT
                              !.boltSize = inputs.boltSize,
                              !.boltCount = inputs.boltCount]).spacingOk

SearchCleared == {"useManualOverride", "actualBCD", "actualOD",
                  "manualSeatingID", "manualSeatingOD"}
GeometryOverrides == {"actualBCD", "actualOD", "manualSeatingID", "manualSeatingOD"}
GasketOverrides == {"manualM", "manualY", "manualPassM", "manualPassY"}

SameExcept(a, b, fields) ==
  \A name \in DOMAIN a : name \notin fields => a[name] = b[name]

\* C5 as stated: after a fixed-size search the bolt size is the one before
\* the search and no field other than boltCount differs.
C5_OnlyCountDiffers ==
  (alert # << >> /\ search[1].fixedSize) =>
    /\ inputs.boltSize = search[1].targetInputs.boltSize
    /\ SameExcept(inputs, search[1].targetInputs, {"boltCount"})

\* C5: after a fixed-size search, succeeded or failed, the bolt size is the
\* one before the search; besides boltCount only the fields the search clears
\* (useManualOverride and the four geometry overrides) can differ, and a
\* failed search changes nothing.
C5_FixedSizeKeepsSize ==
  (search # << >> /\ search[1].fixedSize) =>
    /\ inputs.boltSize = search[1].targetInputs.boltSize
    /\ search[1].bestSize = search[1].targetInputs.boltSize
    /\ SameExcept(inputs, search[1].targetInputs, {"boltCount"} \cup SearchCleared)
    /\ SearchFailed => inputs = search[1].targetInputs

C5_Witness ==
  /\ SearchSucceeded /\ search[1].fixedSize
  /\ inputs.boltCount # search[1].targetInputs.boltCount
  /\ search[1].targetInputs.actualBCD # 0
  /\ inputs.boltSize = 14

\* C7 as stated: on success size and count become the winner, the four
\* geometry overrides become zero, every other field is unchanged.
C7_OnlyGeometryCleared ==
  SearchSucceeded =>
    inputs = [search[1].targetInputs EXCEPT
                !.boltSize = alert[1].boltSize, !.boltCount = alert[1].boltCount,
                !.actualBCD = 0, !.actualOD = 0,
                !.manualSeatingID = 0, !.manualSeatingOD = 0]

\* C7: on success size and count become the winner, the four geometry
\* overrides become zero and useManualOverride becomes false; every other
\* field is unchanged.
C7_SuccessFrame ==
  SearchSucceeded =>
    /\ inputs.boltSize = alert[1].boltSize /\ inputs.boltCount = alert[1].boltCount
    /\ \A name \in GeometryOverrides : inputs[name] = 0
    /\ ~inputs.useManualOverride
    /\ SameExcept(inputs, search[1].targetInputs,
                  {"boltSize", "boltCount"} \cup SearchCleared)

C7_Witness ==
  /\ SearchSucceeded
  /\ search[1].targetInputs.useManualOverride
  /\ \A name \in GeometryOverrides : search[1].targetInputs[name] # 0
  /\ search[1].targetInputs.manualM # 0
  /\ inputs.boltCount # search[1].targetInputs.boltCount

Pcc == PccSteps(inputs, calculateFullResults(inputs))

\* C1: with the check on, both bolt stress limits nonzero and Sb_min <= Sb_max,
\* the final selected stress lies within [Sb_min, Sb_max].
C1_Clamp ==
  (inputs.usePcc1Check /\ inputs.sbMin # 0 /\ inputs.sbMax # 0
   /\ inputs.sbMin <= inputs.sbMax) =>
    /\ inputs.sbMin * 100 <= Pcc.sbSelFinal
    /\ Pcc.sbSelFinal <= inputs.sbMax * 100

\* C2: the final selected stress min(A, B, C) equals C.
C2_MinIsC ==
  inputs.usePcc1Check => Pcc.sbSelFinal = Pcc.valC

(***************************************************************************)
(* The engine's results for the Design Input on screen                     *)
(***************************************************************************)
\* results = useMemo(() => calculateFullResults(inputs))
Results == calculateFullResults(inputs)

\* All eight manual overrides, typed in and cleared again in manual mode.
ManualNumbers ==
  [ actualBCD |-> {0, 9000},
    actualOD |-> {0, 9500},
    manualSeatingID |-> {0, 3300},
    manualSeatingOD |-> {0, 3600},
    manualM |-> {0, 200},
    manualY |-> {0, 5000},
    manualPassM |-> {0, 150},
    manualPassY |-> {0, -17000} ]

EditManual ==
  \/ \E name \in DOMAIN ManualNumbers : \E val \in ManualNumbers[name] :
       ChangeNumber(name, val)
  \/ toggleManualMode

NextManual == EditManual
SpecManual == Init /\ [][NextManual]_vars

\* The result field each manual override decides.
OverrideField ==
  [ actualBCD |-> "finalBCD", actualOD |-> "finalOD",
    manualSeatingID |-> "seatingID", manualSeatingOD |-> "seatingOD",
    manualM |-> "gasketM", manualY |-> "gasketY",
    manualPassM |-> "passM", manualPassY |-> "passY" ]

\* The value the engine derives for the field of an override when the
\* override is zero, from figures the override has no part in.
DerivedValue(name, in, r) ==
  CASE name = "actualBCD"   -> r.bcdTema
    [] name = "actualOD"    -> r.odTema
    [] name = "manualM"     -> GType(in).m
    [] name = "manualY"     -> GType(in).y
    [] name = "manualPassM" -> PassGType(in).m
    [] name = "manualPassY" -> PassGType(in).y
    [] OTHER -> calculateFullResults([in EXCEPT ![name] = 0])[OverrideField[name]]

OverrideDecides(name) ==
  LET field == OverrideField[name]
      cleared == [inputs EXCEPT ![name] = 0]
  IN /\ inputs[name] # 0 => Results[field] = inputs[name]
     /\ calculateFullResults(cleared)[field]
          = DerivedValue(name, cleared, calculateFullResults(cleared))
     /\ DerivedValue(name, inputs, Results)
          = DerivedValue(name, cleared, calculateFullResults(cleared))
     /\ \A val \in ManualNumbers[name] \ {0} :
          calculateFullResults([inputs EXCEPT ![name] = val])[field] = val

\* C11: for each of the eight manual overrides, a nonzero value is exactly the
\* value of the result field the override decides; with the override back at
\* zero the field has the value the engine derives, which is the same before
\* the override is set, while it is set and after; and the edit of an
\* override changes no other input.
C11_OverridePrecedence ==
  /\ [](\A name \in DOMAIN OverrideField : OverrideDecides(name))
  /\ [][ \A name \in DOMAIN OverrideField :
           inputs'[name] # inputs[name] => SameExcept(inputs, inputs', {name}) ]_vars

\* Every override but the explicit BCD is set, one of them negative, and the
\* explicit BCD is zero again with the explicit OD still in force.
C11_Witness ==
  /\ \A name \in DOMAIN OverrideField \ {"actualBCD"} :
       inputs[name] # 0 /\ Results[OverrideField[name]] = inputs[name]
  /\ inputs.manualPassY < 0
  /\ inputs.actualBCD = 0
  /\ Results.finalBCD = Results.bcdTema

(***************************************************************************)
(* Functions of the engine studied on their own                            *)
(***************************************************************************)
\* The application at rest while one call is followed.
AtRest ==
  /\ inputs = initialInputs
  /\ isFixedSizeSearch = FALSE
  /\ search = << >>
  /\ alert = << >>
  /\ savedRecords = << >>
  /\ editingRecordId = Null
  /\ now = 0

\* interpolateStress, for temperatures below, at, between and above the
\* steps and every curve over a missing entry, zero and two stresses.
StressTemps == {2000, 4000, 7000, 10000, 15000, 20000, 30000, 40000, 50000}
StressValues == {NullStress, 0, 480, 1380}
StressCurves == [1..Len(BOLT_TEMP_STEPS) -> StressValues]

InitStress ==
  /\ AtRest
  /\ call \in {<< [temp |-> t, stressCurve |-> c, returned |-> FALSE, value |-> 0] >> :
                 t \in StressTemps, c \in StressCurves}

CallInterpolateStress ==
  /\ call # << >> /\ ~call[1].returned
  /\ call' = << [call[1] EXCEPT
                   !.returned = TRUE,
                   !.value = interpolateStress(call[1].temp, call[1].stressCurve)] >>
  /\ UNCHANGED << inputs, isFixedSizeSearch, search, alert, savedRecords, editingRecordId, now >>

NextStress == CallInterpolateStress
SpecStress == InitStress /\ [][NextStress]_vars

\* C12: interpolateStress returns the first entry of the curve below the
\* lowest step, the last entry above the highest step and, at a temperature
\* equal to step k, entry k, a missing entry counting as zero.
C12_ExactAtSteps ==
  (call # << >> /\ call[1].returned) =>
    LET temp == call[1].temp
        curve == call[1].stressCurve
        last == Len(BOLT_TEMP_STEPS)
    IN /\ temp < BOLT_TEMP_STEPS[1] => call[1].value = CleanStress(curve[1])
       /\ temp > BOLT_TEMP_STEPS[last] => call[1].value = CleanStress(curve[last])
       /\ \A k \in 1..last :
            temp = BOLT_TEMP_STEPS[k] => call[1].value = CleanStress(curve[k])

(***************************************************************************)
(* Zero denominators                                                       *)
(***************************************************************************)
\* The design conditions, the gasket and the bolting that bring a bolt
\* stress, a required load or the bolt root area to zero.
RatioNumbers ==
  [ designTemp |-> {10000, 40000},
    designPressure |-> {0, 100},
    boltCount |-> {0, 12},
    sgT |-> {0, 400} ]
RatioSelects ==
  [ gasketType |-> {"Self-energizing", "Spiral-wound"},
    boltMaterial |-> {"SA-307 B", "SA-193 B7"} ]

EditRatios ==
  \/ \E name \in DOMAIN RatioNumbers : \E val \in RatioNumbers[name] :
       ChangeNumber(name, val)
  \/ \E name \in DOMAIN RatioSelects : \E value \in RatioSelects[name] :
       ChangeSelect(name, value)
  \/ togglePcc1Check

NextRatio == EditRatios
SpecRatio == Init /\ [][NextRatio]_vars

\* requiredLoadN and marginPercent of the summary, in N and in percent
requiredLoadN == RequiredLoad(Results)
marginPercent == Margin(Results.totalBoltLoadDesign, requiredLoadN)

\* C13: every area or stress ratio of the engine is zero when its denominator
\* is zero: the required bolt areas at a zero allowable stress, the stress
\* ratios of the alternative check at a zero bolt root area, and the margin
\* at a zero required load.
C13_ZeroDenominatorYieldsZero ==
  /\ Results.designAllowableStress = 0 => Results.reqAreaOperating = Fin(0)
  /\ Results.ambientAllowableStress = 0 => Results.reqAreaSeating = Fin(0)
  /\ (inputs.usePcc1Check /\ Pcc.totalBoltRootArea = 0) =>
       /\ Pcc.sbSelCalc = 0
       /\ Pcc.step5Threshold = 0
       /\ Pcc.step6Threshold = Fin(0)
  /\ requiredLoadN = 0 => marginPercent = Fin(0)

(***************************************************************************)
(* The stress selection as the bolt load table computes and judges it      *)
(* (components/BoltLoadTable.tsx), from the same Design Input and results  *)
(***************************************************************************)
\* pMpa of the table; p in 1/100 of `unit`, the result in kPa.
TablePMpa(p, unit) ==
  CASE unit = "Bar"    -> p
    [] unit = "PSI"    -> (p * 6894) \div 100000 + (p * 76) \div 10000000
    [] unit = "kg/cm2" -> (p * 9806) \div 10000 + (p * 65) \div 1000000
    [] OTHER           -> p * 10

\* sbSelFinal >= threshold - 0.001, for an extended threshold; stresses in kPa
StepLowerOk(sbSelFinal, threshold) ==
  threshold.k = "ninf" \/ (threshold.k = "fin" /\ sbSelFinal >= threshold.v - 1)

\* limit === 0 ? true : (sbSelFinal <= threshold + 0.001)
StepUpperOk_NoSentinel(limit, sbSelFinal, threshold) ==
  threshold.k = "inf" \/ (threshold.k = "fin" /\ sbSelFinal <= threshold.v + 1)
StepUpperOk(limit, sbSelFinal, threshold) ==
  IF limit = 0 THEN TRUE
  ELSE threshold.k = "inf" \/ (threshold.k = "fin" /\ sbSelFinal <= threshold.v + 1)

\* Ag and the total bolt root area, in mm^2
TableAreas(in, results) ==
  LET ringArea == ((((results.seatingOD - results.seatingID)
                     * (results.seatingOD + results.seatingID)) \div 100) * PI_N)
                  \div (PI_D * 4)
      reducedPassArea == (in.passPartAreaReduction
                          * ((in.passPartitionWidth * in.passPartitionLength) \div 100))
                         \div 100
  IN [ totalAg |-> ringArea + reducedPassArea,
       totalBoltRootArea |-> results.singleBoltArea * in.boltCount ]

\* sbSelCalc and the selection A, B, C, in kPa
TableSelection(in, a) ==
  LET sbSelCalc == IF a.totalBoltRootArea > 0
                   THEN ScaleDiv(in.sgT * a.totalAg, 2, a.totalBoltRootArea) ELSE 0
      valA == MinOrInfinity(sbSelCalc, in.sbMax)
      valB == MaxOrZero(valA, in.sbMin)
      valC == MinOrInfinity(valB, in.sfMax)
  IN a @@ [ sbSelCalc |-> sbSelCalc, valA |-> valA, valB |-> valB, valC |-> valC,
            sbSelFinal |-> SbSelFinal(valA, valB, valC) ]

\* The thresholds of steps 5 to 8, in kPa
TableThresholds(in, results, s, pMpa, gOr1) ==
  s @@ [ step5Threshold |->
           IF s.totalBoltRootArea > 0
           THEN ScaleDiv(in.sgMinS * s.totalAg, 2, s.totalBoltRootArea) ELSE 0,
         step6Threshold |->
           IF s.totalBoltRootArea > 0
           THEN XDiv(in.sgMinO * s.totalAg
                     + 10 * ((((PI_N * ((results.seatingID * results.seatingID) \div 100))
                               \div (PI_D * 4)) * pMpa) \div 1000),
                     gOr1 * s.totalBoltRootArea, 4)
           ELSE Fin(0),
         step7Threshold |->
           IF s.totalBoltRootArea > 0
           THEN Fin(ScaleDiv(in.sgMax * s.totalAg, 2, s.totalBoltRootArea))
           ELSE PosInf,
         step8Threshold |->
           IF in.phiFMax > 0
           THEN Fin(ScaleDiv(in.sfMax * gOr1, 2, in.phiFMax)) ELSE PosInf ]

\* isStep5Ok .. isStep8Ok
TableChecks(in, t) ==
  t @@ [ isStep5Ok |-> t.sbSelFinal >= t.step5Threshold - 1,
         isStep6Ok |-> StepLowerOk(t.sbSelFinal, t.step6Threshold),
         isStep7Ok |-> StepUpperOk(in.sgMax, t.sbSelFinal, t.step7Threshold),
         isStep8Ok |-> StepUpperOk(in.phiFMax, t.sbSelFinal, t.step8Threshold) ]

BoltLoadTableSteps(in, results) ==
  TableChecks(in,
    TableThresholds(in, results, TableSelection(in, TableAreas(in, results)),
                    TablePMpa(in.designPressure, in.pressureUnit),
                    IF in.g # 0 THEN in.g ELSE 100))

\* 'Stress Within Limit' (TRUE) or 'Check Bounds' (FALSE); the limits in dMPa
StressWithinLimit(in, t) ==
  /\ t.sbSelFinal <= in.sbMax * 100
  /\ t.sbSelFinal >= in.sbMin * 100
  /\ t.isStep5Ok /\ t.isStep6Ok /\ t.isStep7Ok /\ t.isStep8Ok

\* The table on screen (it is rendered with the check on only).
Table == BoltLoadTableSteps(inputs, Results)

\* The limits of the alternative check, a zero among them.
LimitNumbers ==
  [ sgT |-> {400, 6000},
    sgMax |-> {0, 1800},
    phiFMax |-> {0, 32},
    sbMax |-> {0, 5075},
    sbMin |-> {0, 2900},
    sfMax |-> {0, 2000} ]

EditLimits ==
  \/ \E name \in DOMAIN LimitNumbers : \E val \in LimitNumbers[name] :
       ChangeNumber(name, val)
  \/ togglePcc1Check

NextLimits == EditLimits
SpecLimits == Init /\ [][NextLimits]_vars

\* C14: a gasket stress limit Sg_max of zero, or a rotation limit of zero,
\* means no limit: step 7, respectively step 8, passes in the summary and in
\* the table, whatever the selected stress.
C14_ZeroMeansNoLimit ==
  inputs.usePcc1Check =>
    /\ inputs.sgMax = 0 => (Pcc.isStep7Ok /\ Table.isStep7Ok)
    /\ inputs.phiFMax = 0 => (Pcc.isStep8Ok /\ Table.isStep8Ok)

\* Both limits zero and a selected stress above the step 7 threshold, which
\* is zero too.
C14_Witness ==
  /\ inputs.usePcc1Check /\ inputs.sgMax = 0 /\ inputs.phiFMax = 0
  /\ Table.step7Threshold.k = "fin"
  /\ Table.sbSelFinal > Table.step7Threshold.v + 1
  /\ Pcc.sbSelFinal = Table.sbSelFinal

\* The verdict of the summary for the Design Input on screen.
PccStatus == pccStatusInfo(inputs, Results)

\* C15: with the check on, pccStatusInfo.safe is true exactly when the four
\* step checks pass and the selected stress lies within [Sb_min, Sb_max].
C15_SafeIffChecksAndBounds ==
  inputs.usePcc1Check =>
    (PccStatus.safe <=>
       /\ Pcc.isStep5Ok /\ Pcc.isStep6Ok /\ Pcc.isStep7Ok /\ Pcc.isStep8Ok
       /\ inputs.sbMin * 100 <= Pcc.sbSelFinal
       /\ Pcc.sbSelFinal <= inputs.sbMax * 100)


\* C16: with the check on, the verdict of the summary and the verdict of the
\* bolt load table agree, also when Sb_max or Sb_min is zero.
C16_VerdictsAgree ==
  inputs.usePcc1Check => (PccStatus.safe <=> StressWithinLimit(inputs, Table))


(***************************************************************************)
(* The governing bolt circle                                               *)
(***************************************************************************)
\* Bolt counts, shell diameters, clearances and seating widths that let each
\* of the three methods govern, alone or level with another.
BcdNumbers ==
  [ boltCount |-> {12, 28, 40},
    insideDia |-> {3000, 6000},
    cClearance |-> {0, 25},
    gasketSeatingWidth |-> {0, 150},
    manualSeatingOD |-> {0, 3000, 3210} ]

EditBcd ==
  \/ \E name \in DOMAIN BcdNumbers : \E val \in BcdNumbers[name] :
       ChangeNumber(name, val)
  \/ toggleManualMode

NextBcd == EditBcd
SpecBcd == Init /\ [][NextBcd]_vars

Candidates == << Results.bcdMethod1, Results.bcdMethod2, Results.bcdMethod3 >>

\* C17: bcdTema is the largest of the three candidates and selectedBcdSource
\* is the lowest-numbered method whose candidate equals it.
C17_GoverningBcd ==
  /\ \A k \in 1..3 : Candidates[k] <= Results.bcdTema
  /\ Results.selectedBcdSource \in 1..3
  /\ Candidates[Results.selectedBcdSource] = Results.bcdTema
  /\ \A k \in 1..3 : k < Results.selectedBcdSource => Candidates[k] # Results.bcdTema

\* Methods 2 and 3 level above method 1: the source reported is 2.
C17_Witness ==
  /\ Results.bcdMethod2 = Results.bcdMethod3
  /\ Results.bcdMethod1 < Results.bcdMethod2
  /\ Results.selectedBcdSource = 2


(***************************************************************************)
(* Method 1 over the bolt count                                            *)
(***************************************************************************)
\* calculateFullResults for two bolt counts n1 <= n2 of one Design Input:
\* every bolt size of the table and one that is not in it, with and without
\* hydraulic tensioning.
PairSizes == {10, 12, 14, 99}
PairCounts == {0, 1, 2, 3, 12, 13, 40, 100}
CountPairs == {p \in PairCounts \X PairCounts : p[1] <= p[2]}

InitPair ==
  /\ AtRest
  /\ call \in {<< [boltSize |-> size, useHydraulicTensioning |-> flag,
                  n1 |-> p[1], n2 |-> p[2], returned |-> FALSE, value |-> << 0, 0 >>] >> :
                 size \in PairSizes, flag \in BOOLEAN, p \in CountPairs}

PairInputs(c, n) ==
  [initialInputs EXCEPT !.boltSize = c.boltSize,
                        !.useHydraulicTensioning = c.useHydraulicTensioning,
                        !.boltCount = n]

CallForTwoCounts ==
  /\ call # << >> /\ ~call[1].returned
  /\ call' = << [call[1] EXCEPT
                   !.returned = TRUE,
                   !.value = << calculateFullResults(PairInputs(call[1], call[1].n1)).bcdMethod1,
                                calculateFullResults(PairInputs(call[1], call[1].n2)).bcdMethod1 >>] >>
  /\ UNCHANGED << inputs, isFixedSizeSearch, search, alert, savedRecords, editingRecordId, now >>

NextPair == CallForTwoCounts
SpecPair == InitPair /\ [][NextPair]_vars

\* C18: for one bolt size and tensioning flag, bcdMethod1 at bolt count n2 is
\* at least bcdMethod1 at bolt count n1 whenever n2 >= n1 >= 0.
C18_Method1Monotone ==
  (call # << >> /\ call[1].returned /\ call[1].n2 >= call[1].n1 /\ call[1].n1 >= 0) =>
    call[1].value[2] >= call[1].value[1]

\* Tensioning on, more bolts, a strictly larger method 1 circle.
C18_Witness ==
  /\ call # << >> /\ call[1].returned
  /\ call[1].useHydraulicTensioning
  /\ call[1].n1 > 0 /\ call[1].n2 > call[1].n1
  /\ call[1].value[2] > call[1].value[1]


(***************************************************************************)
(* Ring widths                                                             *)
(***************************************************************************)
\* handleChange, a checkbox: the flag takes the state of the box
ChangeCheckbox(name) ==
  handleInputChange([inputs EXCEPT ![name] = ~@], name)

\* The two rings: their boxes, their manual widths (the field of a ring is
\* enabled while its box is ticked) and shell diameters in both table rows.
RingNumbers == [ insideDia |-> {1000, 3000, 5000, 5001, 6000, 12000} ]
RingWidths ==
  [ innerRingWidthManual |-> [flag |-> "hasInnerRing", values |-> {0, 80}],
    outerRingWidthManual |-> [flag |-> "hasOuterRing", values |-> {0, 90}] ]

EditRings ==
  \/ \E name \in DOMAIN RingNumbers : \E val \in RingNumbers[name] :
       ChangeNumber(name, val)
  \/ \E name \in DOMAIN RingWidths : \E val \in RingWidths[name].values :
       inputs[RingWidths[name].flag] /\ ChangeNumber(name, val)
  \/ \E name \in {"hasInnerRing", "hasOuterRing"} : ChangeCheckbox(name)

NextRing == EditRings
SpecRing == Init /\ [][NextRing]_vars

\* The rows of the ring table whose range contains the inside diameter.
RingRows(insideDia) ==
  {i \in DOMAIN GASKET_RING_TABLE :
     /\ insideDia >= GASKET_RING_TABLE[i].min
     /\ insideDia <= GASKET_RING_TABLE[i].max}

\* C19: a ring width is zero when the ring's flag is false; otherwise the
\* manual width when that is nonzero; otherwise the minimum width of the
\* table row whose range contains the shell inside diameter.
C19_RingWidths ==
  /\ ~inputs.hasInnerRing => Results.innerRingWidth = 0
  /\ ~inputs.hasOuterRing => Results.outerRingWidth = 0
  /\ (inputs.hasInnerRing /\ inputs.innerRingWidthManual # 0) =>
       Results.innerRingWidth = inputs.innerRingWidthManual
  /\ (inputs.hasOuterRing /\ inputs.outerRingWidthManual # 0) =>
       Results.outerRingWidth = inputs.outerRingWidthManual
  /\ \A i \in RingRows(inputs.insideDia) :
       /\ (inputs.hasInnerRing /\ inputs.innerRingWidthManual = 0) =>
            Results.innerRingWidth = GASKET_RING_TABLE[i].irMin
       /\ (inputs.hasOuterRing /\ inputs.outerRingWidthManual = 0) =>
            Results.outerRingWidth = GASKET_RING_TABLE[i].orMin

\* An inner ring at the table width of the second row, and an outer ring
\* switched off with a manual width left in its field.
C19_Witness ==
  /\ inputs.hasInnerRing /\ inputs.innerRingWidthManual = 0
  /\ RingRows(inputs.insideDia) = {2}
  /\ Results.innerRingWidth = GASKET_RING_TABLE[2].irMin
  /\ ~inputs.hasOuterRing /\ inputs.outerRingWidthManual # 0
  /\ Results.outerRingWidth = 0


(***************************************************************************)
(* Lookup keys that match no table row                                     *)
(***************************************************************************)
\* calculateFullResults for Design Inputs whose keys are in the tables or not:
\* the bolt size, the bolt material, the two gasket types, and a shell
\* inside diameter within, below and above the ranges of the ring table.
KeyNumbers ==
  [ boltSize |-> {12, 99},
    insideDia |-> {3000, -500, 14000},
    boltCount |-> {12, 20} ]
KeySelects ==
  [ boltMaterial |-> {"SA-193 B7", "no such material"},
    gasketType |-> {"Grooved metal", "no such gasket"},
    passGasketType |-> {"Spiral-wound", "no such gasket"} ]

KeyInputs ==
  {[initialInputs EXCEPT !.boltSize = size, !.insideDia = id, !.boltCount = n,
                         !.boltMaterial = mat, !.gasketType = g, !.passGasketType = pg] :
     size \in KeyNumbers.boltSize, id \in KeyNumbers.insideDia,
     n \in KeyNumbers.boltCount, mat \in KeySelects.boltMaterial,
     g \in KeySelects.gasketType, pg \in KeySelects.passGasketType}

InitKeys ==
  /\ AtRest
  /\ call \in {<< [currentInputs |-> ci, returned |-> FALSE, value |-> << >>] >> :
                 ci \in KeyInputs}

CallCalculateFullResults ==
  /\ call # << >> /\ ~call[1].returned
  /\ call' = << [call[1] EXCEPT
                   !.returned = TRUE,
                   !.value = calculateFullResults(call[1].currentInputs)] >>
  /\ UNCHANGED << inputs, isFixedSizeSearch, search, alert, savedRecords, editingRecordId, now >>

NextKeys == CallCalculateFullResults
SpecKeys == InitKeys /\ [][NextKeys]_vars

\* A key that matches no row of a table.
Unmatched(table, field, key) == \A i \in DOMAIN table : table[i][field] # key
OutsideRings(insideDia) == RingRows(insideDia) = {}

\* The figures of the results that come from each looked-up row.
UsesBoltRow(r, row) ==
  /\ r.singleBoltArea = row.tensileArea
  /\ r.boltHoleSize = 10 * CeilDiv(row.holeSize, 10)
  /\ r.edgeDistance = row.E * 127
UsesMaterial(r, row) == r.ambientAllowableStress = CleanStress(row.stresses[2])
UsesGasket(r, row) == r.gasketM = row.m /\ r.gasketY = row.y
UsesPassGasket(r, row) == r.passM = row.m /\ r.passY = row.y
UsesRingRow(r, row) == r.innerRingWidth = row.irMin /\ r.outerRingWidth = row.orMin

\* C20 as stated: every unmatched key makes calculateFullResults use the
\* first entry of its table.
C20_FallsBackToFirst ==
  (call # << >> /\ call[1].returned) =>
    LET ci == call[1].currentInputs
        r == call[1].value
    IN /\ Unmatched(TEMA_BOLT_DATA, "size", ci.boltSize) =>
            UsesBoltRow(r, TEMA_BOLT_DATA[1])
       /\ Unmatched(ASME_BOLT_MATERIALS, "id", ci.boltMaterial) =>
            UsesMaterial(r, ASME_BOLT_MATERIALS[1])
       /\ Unmatched(GASKET_TYPES, "id", ci.gasketType) =>
            UsesGasket(r, GASKET_TYPES[1])
       /\ Unmatched(GASKET_TYPES, "id", ci.passGasketType) =>
            UsesPassGasket(r, GASKET_TYPES[1])
       /\ OutsideRings(ci.insideDia) => UsesRingRow(r, GASKET_RING_TABLE[1])

\* C20: calculateFullResults returns for every unmatched key and uses the
\* first entry of the bolt, material and gasket tables for an unmatched bolt
\* size, bolt material and gasket type, the entry used for the flange gasket
\* for an unmatched pass-partition gasket type, and the last row of the ring
\* table for an inside diameter outside every range.
C20_Fallbacks ==
  (call # << >> /\ call[1].returned) =>
    LET ci == call[1].currentInputs
        r == call[1].value
    IN /\ Unmatched(TEMA_BOLT_DATA, "size", ci.boltSize) =>
            UsesBoltRow(r, TEMA_BOLT_DATA[1])
       /\ Unmatched(ASME_BOLT_MATERIALS, "id", ci.boltMaterial) =>
            UsesMaterial(r, ASME_BOLT_MATERIALS[1])
       /\ Unmatched(GASKET_TYPES, "id", ci.gasketType) =>
            UsesGasket(r, GASKET_TYPES[1])
       /\ Unmatched(GASKET_TYPES, "id", ci.passGasketType) =>
            r.passM = r.gasketM /\ r.passY = r.gasketY
       /\ OutsideRings(ci.insideDia) =>
            UsesRingRow(r, GASKET_RING_TABLE[Len(GASKET_RING_TABLE)])

\* Every key unmatched but the flange gasket's, the diameter below the ranges.
C20_Witness ==
  /\ call # << >> /\ call[1].returned
  /\ Unmatched(TEMA_BOLT_DATA, "size", call[1].currentInputs.boltSize)
  /\ Unmatched(ASME_BOLT_MATERIALS, "id", call[1].currentInputs.boltMaterial)
  /\ ~Unmatched(GASKET_TYPES, "id", call[1].currentInputs.gasketType)
  /\ Unmatched(GASKET_TYPES, "id", call[1].currentInputs.passGasketType)
  /\ call[1].currentInputs.insideDia < GASKET_RING_TABLE[1].min
  /\ UsesBoltRow(call[1].value, TEMA_BOLT_DATA[1])
  /\ call[1].value.passM # GASKET_TYPES[1].m
  /\ UsesRingRow(call[1].value, GASKET_RING_TABLE[Len(GASKET_RING_TABLE)])


(***************************************************************************)
(* The summary list: saved records                                         *)
(***************************************************************************)
MaxRecords == 2
MaxNow == 1

\* Math.round of x tenths
RoundTenths(x) == (x + 5) \div 10

\* newRecord / updatedRecord: the Design Input and the figures of the report;
\* bcd and flangeOd in mm, the gasket diameters in dmm (one decimal).
SavedRecord(id, in, results) ==
  [ id |-> id,
    originalInputs |-> in,
    itemNo |-> IF in.itemNo # "" THEN in.itemNo ELSE "-",
    part |-> IF in.partName # "" THEN in.partName ELSE "-",
    id_mm |-> in.insideDia,
    g0 |-> in.g0,
    g1 |-> in.g1,
    bcd |-> RoundTenths(results.finalBCD),
    flangeOd |-> RoundTenths(results.finalOD),
    boltSize |-> in.boltSize,
    boltEa |-> in.boltCount,
    boltMaterial |-> in.boltMaterial,
    hasOuterRing |-> in.hasOuterRing,
    hasInnerRing |-> in.hasInnerRing,
    gasketRod |-> results.gasketOD,
    gasketOd |-> results.seatingOD,
    gasketId |-> results.seatingID,
    gasketRid |-> results.gasketID,
    gasketType |-> in.gasketType ]

\* Date.now().toString()
NewId == ToString(now)

handleSaveToList ==
  /\ Idle
  /\ Len(savedRecords) < MaxRecords
  /\ savedRecords' = Append(savedRecords, SavedRecord(NewId, inputs, Results))
  /\ editingRecordId' = Null
  /\ UNCHANGED << inputs, isFixedSizeSearch, search, alert, call, now >>

\* prev.map(rec => rec.id === editingRecordId ? updatedRecord : rec)
MapRecords(prev, id, updatedRecord) ==
  [i \in DOMAIN prev |-> IF prev[i].id = id THEN updatedRecord ELSE prev[i]]

handleEditSave ==
  /\ Idle
  /\ IF editingRecordId = Null
     THEN /\ alert' = << [kind |-> "select a record"] >>
          /\ UNCHANGED << savedRecords, editingRecordId >>
     ELSE /\ savedRecords' = MapRecords(savedRecords, editingRecordId,
                                        SavedRecord(editingRecordId, inputs, Results))
          /\ editingRecordId' = Null
          /\ alert' = << [kind |-> "record updated"] >>
  /\ UNCHANGED << inputs, isFixedSizeSearch, search, call, now >>

\* prev.filter(r => r.id !== id)
FilterRecords(prev, id) == SelectSeq(prev, LAMBDA r : r.id # id)

\* removeRecord as it would be if it left editingRecordId alone
removeRecord_KeepsEditing(id) ==
  /\ Idle
  /\ savedRecords' = FilterRecords(savedRecords, id)
  /\ UNCHANGED << inputs, isFixedSizeSearch, search, alert, call, editingRecordId, now >>

removeRecord(id) ==
  /\ Idle
  /\ savedRecords' = FilterRecords(savedRecords, id)
  /\ editingRecordId' = IF editingRecordId = id THEN Null ELSE editingRecordId
  /\ UNCHANGED << inputs, isFixedSizeSearch, search, alert, call, now >>

editRecord(record) ==
  /\ Idle
  /\ inputs' = record.originalInputs
  /\ editingRecordId' = record.id
  /\ UNCHANGED << isFixedSizeSearch, search, alert, call, savedRecords, now >>

\* The Clear All button
clearAll ==
  /\ Idle
  /\ savedRecords' = << >>
  /\ editingRecordId' = Null
  /\ UNCHANGED << inputs, isFixedSizeSearch, search, alert, call, now >>

\* The clock passes to the next millisecond.
Tick ==
  /\ now < MaxNow
  /\ now' = now + 1
  /\ UNCHANGED << inputs, isFixedSizeSearch, search, alert, call,
                  savedRecords, editingRecordId >>

\* The buttons of the report and of the rows of the list.
Recording ==
  \/ handleSaveToList
  \/ handleEditSave
  \/ \E i \in DOMAIN savedRecords : removeRecord(savedRecords[i].id)
  \/ \E i \in DOMAIN savedRecords : editRecord(savedRecords[i])
  \/ clearAll
  \/ DismissAlert

\* Records of Design Inputs that differ in the bolt count and in the design
\* temperature.
RecordNumbers == [ boltCount |-> {12, 16}, designTemp |-> {10000, 40000} ]
EditRecorded ==
  \E name \in DOMAIN RecordNumbers : \E val \in RecordNumbers[name] :
    ChangeNumber(name, val)

NextRecords == Recording \/ Tick \/ EditRecorded
SpecRecords == Init /\ [][NextRecords]_vars


(***************************************************************************)
(* calculateFullResults called twice on one Design Input                   *)
(***************************************************************************)
\* The results memo calls the engine on the Design Input of the moment ...
CallOnInputs ==
  /\ Idle /\ call = << >>
  /\ call' = << [currentInputs |-> inputs,
                 values |-> << calculateFullResults(inputs) >>] >>
  /\ UNCHANGED << inputs, isFixedSizeSearch, search, alert,
                  savedRecords, editingRecordId, now >>

\* ... and the engine is called on that Design Input once more, later.
CallAgain ==
  /\ Idle /\ call # << >> /\ Len(call[1].values) = 1
  /\ call' = << [call[1] EXCEPT
                   !.values = Append(@, calculateFullResults(call[1].currentInputs))] >>
  /\ UNCHANGED << inputs, isFixedSizeSearch, search, alert,
                  savedRecords, editingRecordId, now >>

\* In between: bolt sizes picked (the search mode changes), searches (each
\* finds a bolting), saves, restores and deletes.
BetweenNumbers == [ boltSize |-> {12, 14} ]
Between ==
  \/ \E name \in DOMAIN BetweenNumbers : \E val \in BetweenNumbers[name] :
       ChangeNumber(name, val)
  \/ handleOptimize \/ handleResetAndOptimize \/ SearchStep \/ SearchFound
  \/ DismissAlert
  \/ handleSaveToList
  \/ \E i \in DOMAIN savedRecords : editRecord(savedRecords[i])
  \/ \E i \in DOMAIN savedRecords : removeRecord(savedRecords[i].id)

NextTwice == CallOnInputs \/ CallAgain \/ Between
SpecTwice == Init /\ [][NextTwice]_vars

WithoutIndex(list, k) == SubSeq(list, 1, k - 1) \o SubSeq(list, k + 1, Len(list))

\* C22: the list changes only by a Save that appends one record and leaves
\* the others as they were, by an Edit-Save that replaces the record being
\* edited and no other, by the delete of one record, or by Clear All; a step
\* that changes the Design Input changes no record.
C22_RecordLifecycle ==
  [][ /\ \/ savedRecords' = savedRecords
         \/ /\ Len(savedRecords') = Len(savedRecords) + 1
            /\ SubSeq(savedRecords', 1, Len(savedRecords)) = savedRecords
         \/ /\ Len(savedRecords') = Len(savedRecords)
            /\ \E k \in DOMAIN savedRecords :
                 /\ savedRecords[k].id = editingRecordId
                 /\ savedRecords'[k].id = editingRecordId
                 /\ \A i \in DOMAIN savedRecords \ {k} : savedRecords'[i] = savedRecords[i]
         \/ \E k \in DOMAIN savedRecords : savedRecords' = WithoutIndex(savedRecords, k)
         \/ savedRecords' = << >>
      /\ inputs' # inputs => savedRecords' = savedRecords ]_vars


(***************************************************************************)
(* The hub thickness g1 along the life of the Design Input                 *)
(***************************************************************************)
\* resetGasketStandard: the gasket inputs back to their standard values
resetGasketStandard ==
  handleInputChange(
    [inputs EXCEPT !.cClearance = 25, !.shellGapA = 30,
                   !.innerRingWidthManual = 0, !.outerRingWidthManual = 0,
                   !.hasInnerRing = TRUE, !.hasOuterRing = TRUE,
                   !.useManualOverride = FALSE,
                   !.manualM = 0, !.manualY = 0, !.manualPassM = 0, !.manualPassY = 0,
                   !.manualSeatingID = 0, !.manualSeatingOD = 0,
                   !.actualBCD = 0, !.actualOD = 0,
                   !.useHydraulicTensioning = FALSE, !.usePcc1Check = FALSE,
                   !.passPartitionWidth = 0, !.passPartitionLength = 0,
                   !.passPartAreaReduction = 50,
                   !.phiFMax = 32, !.phiGMax = 100, !.g = 70],
    "reset")

\* g0 typed by hand, a design temperature that recalculates g0 (and at which
\* no bolting is found), a clearance for the gasket reset to undo, searches,
\* and a record saved and restored.
HubNumbers == [ g0 |-> {205}, designTemp |-> {40000}, cClearance |-> {40} ]
EditHub ==
  \/ \E name \in DOMAIN HubNumbers : \E val \in HubNumbers[name] :
       ChangeNumber(name, val)
  \/ resetGasketStandard
  \/ handleSaveToList
  \/ \E i \in DOMAIN savedRecords : editRecord(savedRecords[i])

NextHub == EditHub \/ Searching
SpecHub == Init /\ [][NextHub]_vars

\* C23: in every state g1 = ceil(g0 * 1.3 / 3 + g0), both in mm.
C23_G1FollowsG0 ==
  inputs.g1 = 10 * CeilDiv(43 * inputs.g0, 300)

\* A g0 typed by hand, restored from a record after a recalculated g0 had
\* replaced it.
C23_Witness ==
  /\ inputs.g0 = 205
  /\ inputs.g1 = 300
  /\ editingRecordId # Null
  /\ \E i \in DOMAIN savedRecords : savedRecords[i].originalInputs.g0 # 205


(***************************************************************************)
(* The bolt-spacing status of the result table (ResultTable)               *)
(***************************************************************************)
\* pitch < x and pitch > x for the pitch as a fraction (den = 0: Infinity,
\* -Infinity or NaN, of which every comparison with NaN is false).
PitchLT(pitch, x) ==
  IF pitch.den > 0 THEN pitch.num < x * pitch.den
  ELSE IF pitch.den < 0 THEN pitch.num > x * pitch.den
  ELSE pitch.num < 0
PitchGT(pitch, x) ==
  IF pitch.den > 0 THEN pitch.num > x * pitch.den
  ELSE IF pitch.den < 0 THEN pitch.num < x * pitch.den
  ELSE pitch.num > 0

\* spacingStatus; 0.1 mm = 16/160 mm
spacingStatus(results) ==
  IF PitchLT(results.geometricPitch, results.boltSpacingMin - 16) THEN "PITCH TOO SMALL"
  ELSE IF PitchGT(results.geometricPitch, results.maxBoltSpacing + 16) THEN "PITCH TOO LARGE"
  ELSE "PITCH OK"

\* Bolt circles typed by hand around the largest pitch of 12 bolts, bolt
\* counts and sizes.
PitchNumbers ==
  [ actualBCD |-> {0, 2860, 2865, 2870, 9000},
    boltCount |-> {0, 12, 16, 20},
    boltSize |-> {12, 14} ]
EditPitch ==
  \/ \E name \in DOMAIN PitchNumbers : \E val \in PitchNumbers[name] :
       ChangeNumber(name, val)
  \/ toggleManualMode

NextPitch == EditPitch
SpecPitch == Init /\ [][NextPitch]_vars

\* C24: the result table shows "PITCH OK" exactly when the engine's spacingOk
\* is true.
C24_StatusMatchesEngine ==
  spacingStatus(Results) = "PITCH OK" <=> Results.spacingOk


\* C25: no two records of the list have the same id.
C25_UniqueIds ==
  \A i, j \in DOMAIN savedRecords : i # j => savedRecords[i].id # savedRecords[j].id


\* C26: editingRecordId is null or the id of a record of the list; Save,
\* Clear All, Edit-Save and the delete of the record being edited leave it
\* null, and Edit-Save with editingRecordId null changes neither the list nor
\* the Design Input.
C26_EditingIdInList ==
  /\ [](editingRecordId = Null
        \/ \E i \in DOMAIN savedRecords : savedRecords[i].id = editingRecordId)
  /\ [][ /\ Len(savedRecords') = Len(savedRecords) + 1 => editingRecordId' = Null
         /\ (savedRecords' = << >> /\ savedRecords # << >>) => editingRecordId' = Null
         /\ (/\ editingRecordId # Null
             /\ \A i \in DOMAIN savedRecords' : savedRecords'[i].id # editingRecordId) =>
              editingRecordId' = Null
         /\ (alert = << >> /\ alert' = <<[kind |-> "record updated"]>>) =>
              editingRecordId' = Null
         /\ (alert = << >> /\ alert' = <<[kind |-> "select a record"]>>) =>
              (editingRecordId = Null /\ savedRecords' = savedRecords /\ inputs' = inputs)
         /\ (editingRecordId = Null /\ alert = << >> /\ alert' # << >>) =>
              (savedRecords' = savedRecords /\ inputs' = inputs) ]_vars

\* A record is being edited while another record is in the list.
C26_Witness ==
  /\ editingRecordId # Null
  /\ \E i \in DOMAIN savedRecords : savedRecords[i].id = editingRecordId
  /\ \E i \in DOMAIN savedRecords : savedRecords[i].id # editingRecordId


\* C27: a record keeps the Design Input it was saved with until it is saved
\* again: a step that replaces the stored Design Input of one record leaves
\* every other record as it was, a Save leaves the records before it as they
\* were, and Edit on a record sets the Design Input to the one stored in it and
\* editingRecordId to its id.
C27_SaveRestoreRoundTrip ==
  [][ /\ Len(savedRecords') = Len(savedRecords) =>
           \A k \in DOMAIN savedRecords :
             savedRecords'[k].originalInputs # savedRecords[k].originalInputs =>
               \A i \in DOMAIN savedRecords \ {k} :
                 savedRecords'[i].originalInputs = savedRecords[i].originalInputs
      /\ Len(savedRecords') = Len(savedRecords) + 1 =>
           \A i \in DOMAIN savedRecords :
             savedRecords'[i].originalInputs = savedRecords[i].originalInputs
      /\ (editingRecordId' # Null /\ editingRecordId' # editingRecordId) =>
           \E k \in DOMAIN savedRecords :
             /\ savedRecords' = savedRecords
             /\ inputs' = savedRecords[k].originalInputs
             /\ editingRecordId' = savedRecords[k].id ]_vars


(***************************************************************************)
(* The two-pass bolt circle                                                *)
(***************************************************************************)
\* Bolt counts and shell diameters that let either anchor of the seating OD
\* govern, with and without the outer ring, its manual width, a clearance and
\* manual seating diameters.
SeatNumbers ==
  [ boltCount |-> {12, 40},
    insideDia |-> {3000, 6000},
    cClearance |-> {0, 40},
    manualSeatingOD |-> {0, 3210},
    manualSeatingID |-> {0, 3000} ]

EditSeat ==
  \/ \E name \in DOMAIN SeatNumbers : \E val \in SeatNumbers[name] :
       ChangeNumber(name, val)
  \/ inputs.hasOuterRing /\ \E val \in {0, 90} : ChangeNumber("outerRingWidthManual", val)
  \/ ChangeCheckbox("hasOuterRing")
  \/ toggleManualMode

NextSeat == EditSeat
SpecSeat == Init /\ [][NextSeat]_vars

NoManualSeating == inputs.manualSeatingOD = 0 /\ inputs.manualSeatingID = 0

SpacingNumbers ==
  [ boltCount |-> {0, 40},
    actualBCD |-> {0, 2000},
    manualSeatingOD |-> {0, 3000},
    designTemp |-> {40000} ]

EditSpacing ==
  \/ \E name \in DOMAIN SpacingNumbers : \E val \in SpacingNumbers[name] :
       ChangeNumber(name, val)
  \/ ChangeCheckbox("useHydraulicTensioning")
  \/ toggleManualMode

NextSpacing == Searching \/ EditSpacing
SpecSpacing == Init /\ [][NextSpacing]_vars

\* The pitch of results is not below the minimum spacing, and spacingOk is
\* false only with a pitch above the maximum spacing.
PitchNotBelowMin(results) ==
  /\ PitchGE(results.geometricPitch, results.boltSpacingMin)
  /\ ~results.spacingOk => ~PitchLE(results.geometricPitch, results.maxBoltSpacing)

\* C29: with actualBCD = 0 and a positive bolt count the geometric pitch is
\* not below the minimum bolt spacing and spacingOk is false only for a pitch
\* above the maximum spacing, for the Design Input and for every pair the
\* search tries.
C29_PitchNotBelowMin ==
  /\ (inputs.actualBCD = 0 /\ inputs.boltCount > 0) => PitchNotBelowMin(Results)
  /\ (search # << >> /\ search[1].testInputs # << >>) =>
       PitchNotBelowMin(calculateFullResults(search[1].testInputs[1]))

\* The search has just rejected a pair for its spacing while the Design Input
\* carries a manual BCD.
C29_Witness ==
  /\ search # << >> /\ search[1].testInputs # << >>
  /\ ~calculateFullResults(search[1].testInputs[1]).spacingOk
  /\ inputs.actualBCD # 0


(***************************************************************************)
(* The search mode along the life of the Design Input                      *)
(***************************************************************************)
\* A bolt size picked, an inside diameter typed, a design temperature (at
\* which no bolting is found) and a bolt material as design conditions, a
\* bolt count as a field of neither kind, the gasket reset, one record saved
\* and restored, and searches.
ModeNumbers == [ boltSize |-> {12, 14}, insideDia |-> {6000},
                 designTemp |-> {40000}, boltCount |-> {12} ]
ModeSelects == [ boltMaterial |-> {"SA-193 B7"} ]

GeometryChange ==
  \E name \in DOMAIN ModeNumbers \cap geometryTriggers : \E val \in ModeNumbers[name] :
    ChangeNumber(name, val)
DesignChange ==
  \/ \E name \in DOMAIN ModeNumbers \cap designConditions : \E val \in ModeNumbers[name] :
       ChangeNumber(name, val)
  \/ \E name \in DOMAIN ModeSelects : \E value \in ModeSelects[name] :
       ChangeSelect(name, value)
OtherChange ==
  \/ \E name \in DOMAIN ModeNumbers \ (geometryTriggers \cup designConditions) :
       \E val \in ModeNumbers[name] : ChangeNumber(name, val)
  \/ resetGasketStandard

EditMode ==
  \/ GeometryChange
  \/ DesignChange
  \/ OtherChange
  \/ savedRecords = << >> /\ handleSaveToList
  \/ \E i \in DOMAIN savedRecords : editRecord(savedRecords[i])

NextMode == EditMode \/ Searching
SpecMode == Init /\ [][NextMode]_vars

\* C30 as worded: the mode START searches in follows from the input changes
\* alone, fixed-size after a change of boltSize or insideDia and full after a
\* change of a design condition or with no such change, so that no step other
\* than such an input change alters it.
C30_ModeFromInputChangesOnly ==
  /\ ~isFixedSizeSearch
  /\ [][ /\ GeometryChange => isFixedSizeSearch'
         /\ DesignChange => ~isFixedSizeSearch'
         /\ isFixedSizeSearch' # isFixedSizeSearch => (GeometryChange \/ DesignChange)
         /\ handleOptimize => search'[1].fixedSize = isFixedSizeSearch ]_vars

\* C30, with RESET counted among the steps that set the mode: the mode is
\* full at the start; a change of boltSize or insideDia sets it to fixed-size,
\* a change of a design condition and RESET set it to full, and nothing else
\* changes it; START searches in the mode as it stands and RESET in full
\* mode; a fixed-size search leaves the bolt size as it is.
C30_SearchModeOrdering ==
  /\ ~isFixedSizeSearch
  /\ [][ /\ GeometryChange => isFixedSizeSearch'
         /\ DesignChange => ~isFixedSizeSearch'
         /\ isFixedSizeSearch' # isFixedSizeSearch =>
              (GeometryChange \/ DesignChange \/ handleResetAndOptimize)
         /\ handleOptimize =>
              (search'[1].fixedSize = isFixedSizeSearch /\ UNCHANGED isFixedSizeSearch)
         /\ handleResetAndOptimize => (~search'[1].fixedSize /\ ~isFixedSizeSearch')
         /\ (search # << >> /\ search[1].fixedSize) =>
              inputs'.boltSize = inputs.boltSize ]_vars

\* A fixed-size search started after a bolt size was picked has found a
\* bolting with another bolt count, a record being in the list.
C30_Witness ==
  /\ search # << >> /\ search[1].fixedSize /\ alert # << >>
  /\ search[1].found
  /\ inputs.boltCount # search[1].targetInputs.boltCount
  /\ inputs.boltSize = search[1].targetInputs.boltSize
  /\ savedRecords # << >>
====
